---- MODULE Spec2Model ----
(***************************************************************************)
(* Tab registry and browser lifecycle manager of puppeteer-command-server   *)
(* (src/src/browser/BrowserManager.ts), modelled as a state machine.        *)
(*                                                                          *)
(* Every public method of BrowserManager is an async function: it runs      *)
(* synchronously up to an `await`, and resumes in a later step once the     *)
(* awaited backend promise settles.  Each caller therefore has a position   *)
(* (pc) and locals; an action is the code between two awaits.  The          *)
(* automation backend (puppeteer) is the environment: it settles promises,  *)
(* and delivers the 'disconnected' event of a browser and the 'close'       *)
(* event of a page.                                                         *)
(***************************************************************************)
EXTENDS Integers, FiniteSets, Sequences, TLC

\* ------------------------------------------------------------------ bounds
MaxClock == 1
MaxLaunch == 2
MaxTabs == 2
NumCallers == 2

Callers == 1..NumCallers
Null == 0
Modes == BOOLEAN
TabIds == 1..MaxTabs

\* executable paths: the one a configuration may name, and the one the
\* locator finds
ConfigPaths == {1}
Located == 2

\* the per-tab operations that resolve the id and perform one backend call
PageOps == {"navigateTab", "screenshotTab", "clickElement", "hoverElement",
            "fillField", "selectOption", "evaluateScript", "bringToFront",
            "focusElement", "goBack", "goForward", "reloadTab",
            "waitForSelector", "waitForFunction", "waitForNavigation",
            "getTabUrl"}

VARIABLES
  browsers,    \* this.browsers : mode -> browser instance or Null
  tabs,        \* this.tabs : tabId -> [page, visible]
  chromePath,  \* this.chromePath : configured executable or Null
  launched,    \* backend: the browser instances launched so far
  pages,       \* backend: the pages created so far
  calls,       \* the async call each caller has in flight
  http,        \* the authentication middleware: its configuration and the
               \* request it is handling
  secret,      \* the .secret file of the working directory
  mcp,         \* the MCP layer: the screenshot store ALL_IMAGES, the clock,
               \* the screenshot tool in flight and the answer being sent
  memo         \* the memoized constructor: its cache, the BrowserManager
               \* instances it made and the instance each component holds

vars == <<browsers, tabs, chromePath, launched, pages, calls, http, secret, mcp, memo>>

\* ------------------------------------------------------------- helpers
NoTabs == [t \in {} |-> [page |-> Null, visible |-> TRUE]]

Without(m, ids) == [t \in (DOMAIN m) \ ids |-> m[t]]

TabsOf(m, h) == {t \in DOMAIN m : m[t].visible = h}

\* The callers are interchangeable, so the outcome of a call is observed at one
\* of them: the first caller keeps the outcome of its last call until its next
\* call, the others return to idle when their call settles.
Observed(p) == p = 1

IdleCall == [pc |-> "idle", fn |-> "none", headless |-> TRUE, url |-> FALSE,
             tabId |-> Null, browser |-> Null, key |-> TRUE, result |-> "none",
             observed |-> FALSE, listing |-> <<>>, exe |-> Null,
             issued |-> <<>>, nav |-> "none", click |-> "none"]

NewCall(p) == [IdleCall EXCEPT !.observed = Observed(p)]

\* a settled call: the promise it returned is fulfilled ("ok") or rejected with
\* the named error; the method and the outcome stay visible until the caller's
\* next call
Settled(c, res) ==
  IF c.observed
    THEN [IdleCall EXCEPT !.pc = "done", !.fn = c.fn, !.result = res,
                          !.observed = TRUE]
    ELSE IdleCall

\* an exited browser / a closed page: nothing of it matters any more but that
\* it is gone
ExitedBrowser(r) == [r EXCEPT !.alive = FALSE, !.exe = Null]

ClosedPage(r) == [r EXCEPT !.open = FALSE, !.observed = FALSE, !.browser = Null]

Ready(p) == calls[p].pc \in {"idle", "done"}

Alive(b) == b # Null /\ launched[b].alive

\* strings are sequences of characters
Bearer == <<"B", "e", "a", "r", "e", "r", " ">>

\* what reading a header that the request does not carry gives
Undefined == <<"undefined">>

\* Config['auth'] as createAuthMiddleware reads it: apiKey.enabled and
\* jwt.enabled are true, false, or not given (the objects around them may be
\* missing as well); jwksUrl is not given, a URL, or a string that is no URL
Flags == {"undefined", "true", "false"}

Configs ==
  [apiKey : Flags, jwt : Flags, jwksUrl : {"undefined", "url", "malformed"},
   proxy : {FALSE}]

DefaultConfig ==
  [apiKey |-> "undefined", jwt |-> "undefined", jwksUrl |-> "undefined",
   proxy |-> FALSE]

\* no request in hand
NoRequest(config) ==
  [pc |-> "idle", config |-> config, headers |-> <<>>, nextCalls |-> 0,
   responses |-> <<>>, evaluated |-> <<>>, threw |-> FALSE, methods |-> <<>>,
   tab |-> Null, cycle |-> <<>>, resultText |-> "none",
   path |-> <<>>, verb |-> "none", handlers |-> <<>>,
   route |-> "none", tabId |-> Null, body |-> <<>>, called |-> FALSE,
   outcome |-> "none", status |-> 0, json |-> <<>>,
   issued |-> <<>>, provided |-> <<>>, accepted |-> FALSE,
   readFailed |-> FALSE, before |-> <<>>]

\* no clean-up answer in hand
NoResult ==
  [op |-> "none", uri |-> <<>>, removed |-> FALSE, count |-> 0, status |-> 0]

\* routes/resources.ts line 7: `new Map()`; no tool running
NoImages == <<>>

\* BrowserManagerSingleton before its first call, the server's components
\* before they asked for their BrowserManager; config.chromePath is null
\* (config/index.ts line 14)
NoMemo ==
  [cache |-> <<>>, managers |-> <<>>, config |-> "null",
   routes |-> Null, server |-> Null, verifier |-> Null, issued |-> 0]

IdleMcp ==
  [ALL_IMAGES |-> NoImages, now |-> 0, pc |-> "idle", tabId |-> Null,
   result |-> NoResult, args |-> <<>>]

\* the .secret file: the key generated at start-up, as written or followed by
\* a line break
SecretFiles == {[exists |-> TRUE, content |-> <<"k">>],
                [exists |-> TRUE, content |-> <<"k", "\n">>]}

Init ==
  /\ http = NoRequest(DefaultConfig)
  /\ secret = [exists |-> TRUE, content |-> <<"k">>]
  /\ browsers = [h \in Modes |-> Null]
  /\ tabs = NoTabs
  /\ chromePath \in {Null, 1}
  /\ launched = <<>>
  /\ pages = <<>>
  /\ calls = [p \in Callers |-> NewCall(p)]
  /\ mcp = IdleMcp
  /\ memo = NoMemo

\* ---------------------------------------------------- close(), lines 394-402
KeyOrder == <<TRUE, FALSE>>

\* faulty variant: the loop ends after the first browser it has closed
KeysAfter_none(k) == <<>>

KeysAfter(k) == IF k = TRUE THEN <<FALSE>> ELSE <<>>

\* faulty variant: the locator is asked whatever path is configured
getChromePath_locatorFirst(c) == [c EXCEPT !.pc = "init_locate"]

\* getChromePath() up to its await, lines 69-75: this.chromePath is read; a
\* configured path is returned and puppeteer.launch (line 43) starts with it,
\* without one findChromeBrowser() is called and awaited
getChromePath(c) ==
  IF chromePath # Null
    THEN [c EXCEPT !.pc = "init_launch", !.exe = chromePath]
    ELSE [c EXCEPT !.pc = "init_locate"]

\* where close()/initialize() go once the loop of close() has ended and
\* this.tabs.clear() has run: close() returns; in initialize() the
\* `await this.close()` of line 28 yields even when close() awaited nothing,
\* and what follows it runs in a later turn
closed_call(c) ==
  IF c.fn = "close" THEN Settled(c, "ok")
  ELSE [c EXCEPT !.pc = "init_closed", !.browser = Null, !.key = TRUE]

\* the for-loop of close() from the keys still to visit, run up to its next
\* await: the first key whose slot holds a browser gets browser.close() and the
\* call waits; with no such key the loop ends and this.tabs.clear() runs.
close_loop(p, c, br, keys) ==
  LET held == SelectSeq(keys, LAMBDA k : br[k] # Null) IN
  IF held # <<>>
    THEN /\ browsers' = br
         /\ calls' = [calls EXCEPT ![p] =
                        [c EXCEPT !.pc = "close_wait", !.key = held[1],
                                  !.browser = br[held[1]]]]
         /\ UNCHANGED tabs
    ELSE /\ browsers' = br
         /\ tabs' = NoTabs
         /\ calls' = [calls EXCEPT ![p] = closed_call(c)]

\* close() called as a public operation (closeAllTabs)
close(p) ==
  /\ Ready(p)
  /\ close_loop(p, [NewCall(p) EXCEPT !.fn = "close"], browsers, KeyOrder)
  /\ UNCHANGED <<chromePath, launched, pages, http, secret, mcp, memo>>

\* `await browser.close()` resolved: line 398, then the rest of the loop
close_resume(p) ==
  /\ calls[p].pc = "close_wait"
  /\ ~Alive(calls[p].browser)
  /\ close_loop(p, calls[p], [browsers EXCEPT ![calls[p].key] = Null],
                KeysAfter(calls[p].key))
  /\ UNCHANGED <<chromePath, launched, pages, http, secret, mcp, memo>>

\* `await browser.close()` rejected: close() has no catch, initialize() wraps
close_reject(p) ==
  /\ calls[p].pc = "close_wait"
  /\ calls' = [calls EXCEPT ![p] =
                 Settled(calls[p], IF calls[p].fn = "close" THEN "RawError"
                                   ELSE "BrowserError")]
  /\ UNCHANGED <<browsers, tabs, chromePath, launched, pages, http, secret, mcp, memo>>

\* ----------------------------------------------- initialize(), lines 26-67
\* line 28: initialize() starts with `await this.close()`
initialize_enter(p, c) == close_loop(p, c, browsers, KeyOrder)

initialize(p, headless) ==
  /\ Ready(p)
  /\ initialize_enter(p, [NewCall(p) EXCEPT !.fn = "initialize",
                                          !.headless = headless])
  /\ UNCHANGED <<chromePath, launched, pages, http, secret, mcp, memo>>

\* initialize() resumes after `await this.close()`: line 29 calls
\* getChromePath(), which reads the path configured now
initialize_closed(p) ==
  /\ calls[p].pc = "init_closed"
  /\ calls' = [calls EXCEPT ![p] = getChromePath(calls[p])]
  /\ UNCHANGED <<browsers, tabs, chromePath, launched, pages, http, secret, mcp, memo>>

\* lines 74-83: findChromeBrowser() has answered: with a path puppeteer.launch
\* starts with it, with none (or when it threw) BrowserError is thrown;
\* this.chromePath is not read again
findChromeBrowser_settled(p, found) ==
  /\ calls[p].pc = "init_locate"
  /\ calls' = [calls EXCEPT ![p] =
                 IF found
                   THEN [calls[p] EXCEPT !.pc = "init_launch", !.exe = Located]
                   ELSE Settled(calls[p], "BrowserError")]
  /\ UNCHANGED <<browsers, tabs, chromePath, launched, pages, http, secret, mcp, memo>>

\* faulty variant: the handler drops every tab, whatever its mode
disconnected_tabs_all(headless) == NoTabs

\* the 'disconnected' handler of a browser launched for mode `headless`,
\* lines 53-61: the tab map and the slots it leaves
disconnected_tabs(headless) == Without(tabs, TabsOf(tabs, headless))

disconnected_browsers(headless) == [browsers EXCEPT ![headless] = Null]

\* lines 43-61: puppeteer.launch resolved; the slot is set and the handler
\* registered
initialize_launched(p) ==
  /\ calls[p].pc = "init_launch"
  /\ Len(launched) < MaxLaunch
  /\ launched' = Append(launched, [headless |-> calls[p].headless,
                                   alive |-> TRUE, exe |-> calls[p].exe])
  /\ browsers' = [browsers EXCEPT ![calls[p].headless] = Len(launched) + 1]
  /\ calls' = [calls EXCEPT ![p] =
                 IF calls[p].fn = "initialize" THEN Settled(calls[p], "ok")
                 ELSE [calls[p] EXCEPT !.pc = "open_initialized",
                                       !.exe = Null]]
  /\ UNCHANGED <<tabs, chromePath, pages, http, secret, mcp, memo>>

\* faulty variant: the rejection is swallowed and the call returns normally
initialize_launch_swallow(p) ==
  /\ calls[p].pc = "init_launch"
  /\ calls' = [calls EXCEPT ![p] = Settled(calls[p], "ok")]
  /\ UNCHANGED <<browsers, tabs, chromePath, launched, pages, http, secret, mcp, memo>>

\* lines 64-66: puppeteer.launch rejected
initialize_launch_reject(p) ==
  /\ calls[p].pc = "init_launch"
  /\ calls' = [calls EXCEPT ![p] = Settled(calls[p], "BrowserError")]
  /\ UNCHANGED <<browsers, tabs, chromePath, launched, pages, http, secret, mcp, memo>>

\* -------------------------------------------------- openTab(), lines 86-121
\* lines 93-102: read the slot, fail if empty, else start browser.newPage()
openTab_newPage(c) ==
  IF browsers[c.headless] = Null THEN Settled(c, "BrowserError")
  ELSE [c EXCEPT !.pc = "open_newpage", !.browser = browsers[c.headless]]

\* faulty variant: initialize(headless) runs whatever the slot holds
openTab_call_relaunch(p, headless, url) ==
  /\ Ready(p)
  /\ LET c == [NewCall(p) EXCEPT !.fn = "openTab", !.headless = headless,
                               !.url = url] IN
     initialize_enter(p, c)

\* lines 86-91: an empty slot means initialize(headless) first
openTab_call(p, headless, url) ==
  /\ Ready(p)
  /\ LET c == [NewCall(p) EXCEPT !.fn = "openTab", !.headless = headless,
                               !.url = url] IN
     IF browsers[headless] = Null
       THEN initialize_enter(p, c)
       ELSE /\ calls' = [calls EXCEPT ![p] = openTab_newPage(c)]
            /\ UNCHANGED <<browsers, tabs>>

\* openTab called by a client of the registry
openTab(p, headless, url) ==
  /\ openTab_call(p, headless, url)
  /\ UNCHANGED <<chromePath, launched, pages, http, secret, mcp, memo>>

\* openTab resumes after `await this.initialize(headless)`
openTab_initialized(p) ==
  /\ calls[p].pc = "open_initialized"
  /\ calls' = [calls EXCEPT ![p] = openTab_newPage(calls[p])]
  /\ UNCHANGED <<browsers, tabs, chromePath, launched, pages, http, secret, mcp, memo>>

\* faulty variant: the id is the lowest number no tracked tab holds
randomUUID_recycled ==
  CHOOSE t \in 1..(Len(pages) + 1) :
    t \notin DOMAIN tabs /\ \A u \in 1..(t - 1) : u \in DOMAIN tabs

\* line 103, crypto.randomUUID(): a version-4 identifier, a value the generator
\* has not returned before; here the ordinal of the page it is generated for
randomUUID == Len(pages) + 1

\* lines 102-117: newPage resolved; the tab is registered under a fresh id;
\* with a url the navigation starts, without one the close observer is
\* registered and the id returned
openTab_registered(p) ==
  /\ calls[p].pc = "open_newpage"
  /\ Alive(calls[p].browser)
  /\ Len(pages) < MaxTabs
  /\ LET id == randomUUID IN
     /\ pages' = Append(pages, [browser |-> calls[p].browser, open |-> TRUE,
                                observed |-> ~calls[p].url])
     /\ tabs' = [t \in (DOMAIN tabs) \cup {id} |->
                   IF t = id THEN [page |-> id, visible |-> calls[p].headless]
                   ELSE tabs[t]]
     /\ calls' = [calls EXCEPT ![p] =
                    IF calls[p].url
                      THEN [calls[p] EXCEPT !.pc = "open_goto", !.tabId = id]
                      ELSE Settled(calls[p], "ok")]
  /\ UNCHANGED <<browsers, chromePath, launched, http, secret, mcp, memo>>

\* lines 118-120: newPage rejected
openTab_newPage_reject(p) ==
  /\ calls[p].pc = "open_newpage"
  /\ calls' = [calls EXCEPT ![p] = Settled(calls[p], "BrowserError")]
  /\ UNCHANGED <<browsers, tabs, chromePath, launched, pages, http, secret, mcp, memo>>

\* lines 109-117: page.goto resolved; only now is the close observer
\* registered
openTab_navigated(p) ==
  /\ calls[p].pc = "open_goto"
  /\ pages[calls[p].tabId].open
  /\ pages' = [pages EXCEPT ![calls[p].tabId].observed = TRUE]
  /\ calls' = [calls EXCEPT ![p] = Settled(calls[p], "ok")]
  /\ UNCHANGED <<browsers, tabs, chromePath, launched, http, secret, mcp, memo>>

\* lines 118-120: page.goto rejected; the entry of line 105 stays
openTab_goto_reject(p) ==
  /\ calls[p].pc = "open_goto"
  /\ calls' = [calls EXCEPT ![p] = Settled(calls[p], "BrowserError")]
  /\ UNCHANGED <<browsers, tabs, chromePath, launched, pages, http, secret, mcp, memo>>

\* ------------------------------------------------ closeTab(), lines 226-248
\* faulty variant: the failed lookup reported as a generic backend failure
tab_missing_generic(c) == Settled(c, "BrowserError")

\* lines 227-230, and the same lines of every per-tab operation: the lookup
\* this.tabs.get(tabId) found nothing
tab_missing(c) == Settled(c, "TabNotFoundError")

\* lines 227-233: resolve the id, then start page.close(); a page that is
\* already closed makes that call reject
closeTab_call(p, id) ==
  /\ Ready(p)
  /\ LET c == [NewCall(p) EXCEPT !.fn = "closeTab", !.tabId = id] IN
     IF id \notin DOMAIN tabs
       THEN calls' = [calls EXCEPT ![p] = tab_missing(c)]
       ELSE calls' = [calls EXCEPT ![p] =
                        [c EXCEPT !.headless = tabs[id].visible,
                                  !.pc = IF pages[tabs[id].page].open
                                           THEN "closeTab_page"
                                           ELSE "closeTab_page_gone"]]

\* closeTab called by a client of the registry
closeTab(p, id) ==
  /\ closeTab_call(p, id)
  /\ UNCHANGED <<browsers, tabs, chromePath, launched, pages, http, secret, mcp, memo>>

\* faulty variant: the test made on the map as it was before the entry was deleted
anyTabsLeft_before(m, headless) == \E t \in DOMAIN tabs : tabs[t].visible = headless

\* faulty variant: the test never finds a tab
anyTabsLeft_never(m, headless) == FALSE

\* line 237: is any tab of the closed tab's mode left in the map `m`
anyTabsLeft(m, headless) == \E t \in DOMAIN m : m[t].visible = headless

\* lines 234-244: page.close() resolved; the entry is deleted, and with no tab
\* of the mode left the browser in the slot, if any, is closed
closeTab_deleted(p) ==
  /\ calls[p].pc = "closeTab_page"
  /\ ~pages[calls[p].tabId].open
  /\ LET left == Without(tabs, {calls[p].tabId})
         h == calls[p].headless IN
     /\ tabs' = left
     /\ calls' = [calls EXCEPT ![p] =
                    IF ~anyTabsLeft(left, h) /\ browsers[h] # Null
                      THEN [calls[p] EXCEPT !.pc = "closeTab_browser",
                                            !.browser = browsers[h]]
                      ELSE Settled(calls[p], "ok")]
  /\ UNCHANGED <<browsers, chromePath, launched, pages, http, secret, mcp, memo>>

\* lines 245-247: page.close() rejected
closeTab_page_reject(p) ==
  /\ calls[p].pc \in {"closeTab_page", "closeTab_page_gone"}
  /\ calls' = [calls EXCEPT ![p] = Settled(calls[p], "BrowserError")]
  /\ UNCHANGED <<browsers, tabs, chromePath, launched, pages, http, secret, mcp, memo>>

\* lines 241-242: browser.close() resolved; the slot is cleared
closeTab_browser_closed(p) ==
  /\ calls[p].pc = "closeTab_browser"
  /\ ~Alive(calls[p].browser)
  /\ browsers' = [browsers EXCEPT ![calls[p].headless] = Null]
  /\ calls' = [calls EXCEPT ![p] = Settled(calls[p], "ok")]
  /\ UNCHANGED <<tabs, chromePath, launched, pages, http, secret, mcp, memo>>

\* lines 245-247: browser.close() rejected
closeTab_browser_reject(p) ==
  /\ calls[p].pc = "closeTab_browser"
  /\ calls' = [calls EXCEPT ![p] = Settled(calls[p], "BrowserError")]
  /\ UNCHANGED <<browsers, tabs, chromePath, launched, pages, http, secret, mcp, memo>>

\* ------------------------------- the per-tab operations, lines 123-224, 250-377
\* the lookup, then one backend call on the page; getTabUrl (line 373) reads
\* page.url() without awaiting
pageOp_call(p, op, id) ==
  /\ Ready(p)
  /\ LET c == [NewCall(p) EXCEPT !.fn = op, !.tabId = id] IN
     calls' = [calls EXCEPT ![p] =
                 IF id \notin DOMAIN tabs THEN tab_missing(c)
                 ELSE IF op = "getTabUrl" THEN Settled(c, "ok")
                 ELSE [c EXCEPT !.pc = "page_wait"]]

\* faulty variant: an operation waits while another is in flight on the tab
pageOp_serialized(p, op, id) ==
  /\ \A q \in Callers \ {p} :
       ~(calls[q].pc = "page_wait" /\ calls[q].tabId = id)
  /\ pageOp_call(p, op, id)
  /\ UNCHANGED <<browsers, tabs, chromePath, launched, pages, http, secret, mcp, memo>>

\* a caller calls a per-tab operation
pageOp(p, op, id) ==
  /\ pageOp_call(p, op, id)
  /\ UNCHANGED <<browsers, tabs, chromePath, launched, pages, http, secret, mcp, memo>>

\* the backend call resolved
pageOp_resolved(p) ==
  /\ calls[p].pc = "page_wait"
  /\ pages[calls[p].tabId].open
  /\ calls' = [calls EXCEPT ![p] = Settled(calls[p], "ok")]
  /\ UNCHANGED <<browsers, tabs, chromePath, launched, pages, http, secret, mcp, memo>>

\* the backend call rejected: rethrown as BrowserError
pageOp_rejected(p) ==
  /\ calls[p].pc = "page_wait"
  /\ calls' = [calls EXCEPT ![p] = Settled(calls[p], "BrowserError")]
  /\ UNCHANGED <<browsers, tabs, chromePath, launched, pages, http, secret, mcp, memo>>

\* ------------------------------------------ clickElement(), lines 154-172
\* faulty variant: the first of the two to be fulfilled fulfils the whole
all_race(nav, click) ==
  IF "rejected" \in {nav, click} THEN "rejected"
  ELSE IF "fulfilled" \in {nav, click} THEN "fulfilled"
  ELSE "pending"

\* Promise.all over the two promises of lines 162-165: rejected once either
\* is, fulfilled once both are
all(nav, click) ==
  IF "rejected" \in {nav, click} THEN "rejected"
  ELSE IF nav = "fulfilled" /\ click = "fulfilled" THEN "fulfilled"
  ELSE "pending"

\* the call after one of its two promises has settled: still awaiting, or
\* returned, or failed with BrowserError from the catch (lines 169-171)
clickElement_await(c) ==
  LET state == all(c.nav, c.click) IN
  IF state = "pending" THEN c
  ELSE IF c.observed
    THEN [Settled(c, IF state = "fulfilled" THEN "ok" ELSE "BrowserError")
            EXCEPT !.issued = c.issued, !.nav = c.nav, !.click = c.click]
    ELSE IdleCall

\* clickElement(tabId, selector, waitForNavigation): without the flag one
\* backend call like every per-tab operation; with it the array of line
\* 162-165 is built left to right, page.waitForNavigation() first, then
\* page.click(), and the two promises are awaited together
clickElement_call(p, id, waitForNavigation) ==
  IF waitForNavigation /\ id \in DOMAIN tabs
    THEN /\ Ready(p)
         /\ calls' = [calls EXCEPT ![p] =
                        [NewCall(p) EXCEPT
                           !.fn = "clickElement", !.tabId = id,
                           !.pc = "click_all",
                           !.issued = <<"waitForNavigation", "click">>,
                           !.nav = "pending", !.click = "pending"]]
    ELSE pageOp_call(p, "clickElement", id)

\* clickElement called by a client of the registry
clickElement(p, id, waitForNavigation) ==
  /\ clickElement_call(p, id, waitForNavigation)
  /\ UNCHANGED <<browsers, tabs, chromePath, launched, pages, http, secret, mcp, memo>>

\* page.click() resolved
click_resolved(p) ==
  /\ calls[p].pc = "click_all"
  /\ calls[p].click = "pending"
  /\ pages[calls[p].tabId].open
  /\ calls' = [calls EXCEPT ![p] =
                 clickElement_await([calls[p] EXCEPT !.click = "fulfilled"])]
  /\ UNCHANGED <<browsers, tabs, chromePath, launched, pages, http, secret, mcp, memo>>

\* page.click() rejected
click_rejected(p) ==
  /\ calls[p].pc = "click_all"
  /\ calls[p].click = "pending"
  /\ calls' = [calls EXCEPT ![p] =
                 clickElement_await([calls[p] EXCEPT !.click = "rejected"])]
  /\ UNCHANGED <<browsers, tabs, chromePath, launched, pages, http, secret, mcp, memo>>

\* page.waitForNavigation() resolved
waitForNavigation_resolved(p) ==
  /\ calls[p].pc = "click_all"
  /\ calls[p].nav = "pending"
  /\ pages[calls[p].tabId].open
  /\ calls' = [calls EXCEPT ![p] =
                 clickElement_await([calls[p] EXCEPT !.nav = "fulfilled"])]
  /\ UNCHANGED <<browsers, tabs, chromePath, launched, pages, http, secret, mcp, memo>>

\* page.waitForNavigation() rejected (timeout, or the page went away)
waitForNavigation_rejected(p) ==
  /\ calls[p].pc = "click_all"
  /\ calls[p].nav = "pending"
  /\ calls' = [calls EXCEPT ![p] =
                 clickElement_await([calls[p] EXCEPT !.nav = "rejected"])]
  /\ UNCHANGED <<browsers, tabs, chromePath, launched, pages, http, secret, mcp, memo>>

\* ------------------------------------------------- getTabs(), lines 379-392
\* line 383-388: the entry pushed for tab t once its title is read; the
\* headless flag is the literal of line 387
TabInfo(t) == [id |-> t, headless |-> FALSE]

\* `return tabs` (line 391): the call is fulfilled with the array built so far
getTabs_return(c) ==
  [IdleCall EXCEPT !.pc = "done", !.fn = "getTabs", !.result = "ok",
                   !.observed = c.observed, !.listing = c.listing]

\* the for-of loop over this.tabs (insertion order, which is the order of the
\* ids) from the entry after c.tabId, run up to its next await: page.url() is
\* read and page.title() awaited for the next entry of the live map; with no
\* entry left the array is returned
getTabs_loop(c) ==
  LET rest == {t \in DOMAIN tabs : t > c.tabId} IN
  IF rest = {} THEN getTabs_return(c)
  ELSE [c EXCEPT !.pc = "getTabs_title",
                 !.tabId = CHOOSE t \in rest : \A u \in rest : t <= u]

getTabs(p) ==
  /\ Ready(p)
  /\ calls' = [calls EXCEPT ![p] =
                 getTabs_loop([NewCall(p) EXCEPT !.fn = "getTabs"])]
  /\ UNCHANGED <<browsers, tabs, chromePath, launched, pages, http, secret, mcp, memo>>

\* `await page.title()` resolved: the entry is pushed and the loop goes on
getTabs_titled(p) ==
  /\ calls[p].pc = "getTabs_title"
  /\ pages[calls[p].tabId].open
  /\ calls' = [calls EXCEPT ![p] =
                 getTabs_loop([calls[p] EXCEPT !.listing =
                                 Append(@, TabInfo(calls[p].tabId))])]
  /\ UNCHANGED <<browsers, tabs, chromePath, launched, pages, http, secret, mcp, memo>>

\* `await page.title()` rejected: getTabs has no catch, the backend's error is
\* what the caller gets
getTabs_title_reject(p) ==
  /\ calls[p].pc = "getTabs_title"
  /\ calls' = [calls EXCEPT ![p] = Settled(calls[p], "RawError")]
  /\ UNCHANGED <<browsers, tabs, chromePath, launched, pages, http, secret, mcp, memo>>

\* ------------------------------------------ updateChromePath(), lines 404-406
updateChromePath(path) ==
  /\ chromePath' = path
  /\ chromePath' # chromePath
  /\ UNCHANGED <<browsers, tabs, launched, pages, calls, http, secret, mcp, memo>>

\* ------------------------------------------------------- backend events
\* browser b exits (it was closed, or it crashed): its pages are gone and its
\* 'disconnected' handler, lines 53-61, runs
disconnected(b) ==
  /\ Alive(b)
  /\ launched' = [launched EXCEPT ![b] = ExitedBrowser(launched[b])]
  /\ pages' = [pg \in DOMAIN pages |->
                 IF pages[pg].browser = b THEN ClosedPage(pages[pg])
                 ELSE pages[pg]]
  /\ tabs' = disconnected_tabs(launched[b].headless)
  /\ browsers' = disconnected_browsers(launched[b].headless)
  /\ UNCHANGED <<chromePath, calls, http, secret, mcp, memo>>

\* the 'close' handler of an observed page, lines 113-115
page_closed_tabs(pg) == IF pages[pg].observed THEN Without(tabs, {pg}) ELSE tabs

\* page pg closes (page.close(), or the page closed itself) and emits 'close'
page_closed(pg) ==
  /\ pages[pg].open
  /\ pages' = [pages EXCEPT ![pg] = ClosedPage(pages[pg])]
  /\ tabs' = page_closed_tabs(pg)
  /\ UNCHANGED <<browsers, chromePath, launched, calls, http, secret, mcp, memo>>

\* ===================================================================
\* Authentication middleware, src/src/auth/index.ts
\* ===================================================================
startsWith(str, prefix) ==
  Len(str) >= Len(prefix) /\ SubSeq(str, 1, Len(prefix)) = prefix

substring(str, start) == SubSeq(str, start + 1, Len(str))

\* the characters String.prototype.trim strips: WhiteSpace (TAB, VT, FF, SP,
\* NBSP, ZWNBSP and the space separators) and LineTerminator (LF, CR, LS, PS)
\* of ECMAScript; a character beyond U+00FF is written by its code point
WhiteSpace ==
  {"\t", "", "\f", " ", " ", "U+FEFF", "U+1680", "U+2000", "U+2001",
   "U+2002", "U+2003", "U+2004", "U+2005", "U+2006", "U+2007", "U+2008",
   "U+2009", "U+200A", "U+202F", "U+205F", "U+3000"}

LineTerminator == {"\n", "\r", "U+2028", "U+2029"}

IsSpace(ch) == ch \in WhiteSpace \cup LineTerminator

\* String.prototype.trim
trim(str) ==
  LET kept == {i \in 1..Len(str) : ~IsSpace(str[i])} IN
  IF kept = {} THEN <<>>
  ELSE SubSeq(str, CHOOSE i \in kept : \A j \in kept : i <= j,
                   CHOOSE i \in kept : \A j \in kept : j <= i)

\* req.headers[name]
Header(headers, name) ==
  IF name \in DOMAIN headers THEN headers[name] ELSE Undefined

\* faulty variant: the empty string counts as a value
Truthy_defined(v) == v # Undefined

\* JavaScript truthiness of a header value
Truthy(v) == v # Undefined /\ v # <<>>

\* generateApiKey(), lines 8-10: 32 random bytes in hex; a key that is neither
\* the one in the file nor the one the request carries
generateApiKey(file, provided) ==
  CHOOSE key \in {<<"g">>, <<"h">>, <<"i">>} :
    key # provided /\ key # trim(file.content)

\* loadApiKey(), lines 12-29: the trimmed content of .secret; when the file is
\* missing or cannot be read a new key is generated and written, and a failing
\* write throws
loadApiKey(file, provided, readFails, writeFails) ==
  IF file.exists /\ ~readFails
    THEN [threw |-> FALSE, key |-> trim(file.content), file |-> file]
    ELSE IF writeFails
      THEN [threw |-> TRUE, key |-> <<>>, file |-> file]
      ELSE LET apiKey == generateApiKey(file, provided) IN
           [threw |-> FALSE, key |-> apiKey,
            file |-> [exists |-> TRUE, content |-> apiKey]]

\* faulty variant: the API key strategy is enabled only when asked for
apiKeyEnabled_optIn(config) == config.apiKey = "true"

\* lines 64-66
apiKeyEnabled(config) == config.apiKey # "false"

jwtEnabled(config) == config.jwt = "true"

\* lines 69-92: the strategies pushed for a request, in order
authStrategies(config) ==
  (IF apiKeyEnabled(config) THEN <<"apiKey">> ELSE <<>>)
    \o (IF jwtEnabled(config) THEN <<"jwt">> ELSE <<>>)

\* line 74
providedKey(headers) ==
  IF Truthy(Header(headers, "x-api-key")) THEN Header(headers, "x-api-key")
  ELSE Header(headers, "X-API-KEY")

\* the API key strategy, lines 73-78 with verifyApiKey (59-62): its result
\* (accepted), whether it threw, and the file it leaves
apiKeyStrategy(headers, file, readFails, writeFails) ==
  LET key == providedKey(headers) IN
  IF ~Truthy(key)
    THEN [accepted |-> FALSE, threw |-> FALSE, file |-> file, loaded |-> FALSE]
    ELSE LET l == loadApiKey(file, key, readFails, writeFails) IN
         [accepted |-> ~l.threw /\ key = l.key, threw |-> l.threw,
          file |-> l.file, loaded |-> TRUE]

\* faulty variant: any Authorization header is taken to carry a token
jwtStrategy_anyHeader(headers, config) ==
  IF config.jwksUrl = "url" THEN "verify" ELSE "false"

\* the JWT strategy up to its await, lines 84-91 with verifyJWT (31-48):
\* "false" when the header is missing or is not a Bearer header; with
\* jwt.proxy the token of a Bearer header goes to verifyJWTInBrowser whatever
\* jwksUrl is; without it "false" when no jwksUrl is configured or when the
\* jwksUrl is no URL (new URL throws inside the try), and otherwise jwtVerify
\* is started on the token ("verify")
jwtStrategy(headers, config) ==
  LET authHeader == Header(headers, "authorization") IN
  IF Truthy(authHeader) /\ startsWith(authHeader, Bearer)
    THEN IF config.proxy \/ config.jwksUrl = "url" THEN "verify" ELSE "false"
    ELSE "false"

\* the token handed to jwtVerify
token(headers) == substring(Header(headers, "authorization"), 7)

\* lines 114-116: the methods named in the error text of INVALID_CREDENTIALS
supportedMethods(config) ==
  (IF apiKeyEnabled(config) THEN <<"API key (x-api-key header)">> ELSE <<>>)
    \o (IF jwtEnabled(config) THEN <<"JWT Bearer token">> ELSE <<>>)

\* lines 95-101 and 118-123: res.status(401).json({... error, code}) and return
respond(h, code) ==
  [h EXCEPT !.pc = "done", !.responses = Append(@, code),
            !.methods = IF code = "INVALID_CREDENTIALS"
                          THEN supportedMethods(h.config) ELSE <<>>]

\* lines 107-110 and 126: authenticated, the loop is left and next() called
callNext(h) == [h EXCEPT !.pc = "done", !.nextCalls = @ + 1]

\* faulty variant: the strategies left are evaluated too before next() is called
afterSuccess_continue(h, rest) ==
  callNext([h EXCEPT !.evaluated =
              @ \o rest \o (IF rest # <<>> /\ jwtStrategy(h.headers, h.config) = "verify"
                              THEN <<"jwtVerify">> ELSE <<>>)])

\* lines 107-110: `authenticated = true; break`
afterSuccess(h, rest) == callNext(h)

\* lines 105-126: the loop over the strategies still to try, run up to its
\* next suspension: a strategy that throws rejects the middleware's promise
\* with neither a response nor next(); one that succeeds ends the loop; the
\* JWT strategy that starts jwtVerify suspends it; with none left 401
\* INVALID_CREDENTIALS is answered
RECURSIVE tryStrategies(_, _, _, _, _)
tryStrategies(strategies, h, file, readFails, writeFails) ==
  IF strategies = <<>>
    THEN [http |-> respond(h, "INVALID_CREDENTIALS"), file |-> file]
  ELSE IF Head(strategies) = "apiKey"
    THEN LET a == apiKeyStrategy(h.headers, file, readFails, writeFails)
             h1 == [h EXCEPT !.evaluated = Append(@, "apiKey")] IN
         IF a.threw
           THEN [http |-> [h1 EXCEPT !.pc = "done", !.threw = TRUE],
                 file |-> a.file]
         ELSE IF a.accepted
           THEN [http |-> afterSuccess(h1, Tail(strategies)), file |-> a.file]
         ELSE tryStrategies(Tail(strategies), h1, a.file, readFails, writeFails)
  ELSE LET h1 == [h EXCEPT !.evaluated = Append(@, "jwt")] IN
       IF jwtStrategy(h.headers, h.config) = "verify"
         THEN [http |-> [h1 EXCEPT !.pc = "jwt_verify",
                                   !.evaluated = Append(@, "jwtVerify")],
               file |-> file]
         ELSE tryStrategies(Tail(strategies), h1, file, readFails, writeFails)

\* the middleware called for a request, lines 67-110: with no strategy enabled
\* 401 NO_AUTH_CONFIGURED is answered at once, otherwise the strategies are
\* tried in order
createAuthMiddleware(h, file, readFails, writeFails) ==
  LET strategies == authStrategies(h.config) IN
  IF strategies = <<>>
    THEN [http |-> respond(h, "NO_AUTH_CONFIGURED"), file |-> file]
    ELSE tryStrategies(strategies, h, file, readFails, writeFails)

\* the middleware is called with a request
authenticate(headers, readFails, writeFails) ==
  /\ http.pc \in {"idle", "done"}
  /\ LET h == [NoRequest(http.config) EXCEPT !.headers = headers]
         r == createAuthMiddleware(h, secret, readFails, writeFails) IN
     /\ http' = r.http
     /\ secret' = r.file
  /\ UNCHANGED <<browsers, tabs, chromePath, launched, pages, calls, mcp, memo>>

\* the tokens jwtVerify accepts against the key set
ValidTokens == {<<"v">>}

\* `await jwtVerify(...)` resolved (lines 50-51): the strategy returns true
jwtVerify_resolved ==
  /\ http.pc = "jwt_verify"
  /\ token(http.headers) \in ValidTokens
  /\ http' = afterSuccess(http, <<>>)
  /\ UNCHANGED <<browsers, tabs, chromePath, launched, pages, calls, secret, mcp, memo>>

\* `await jwtVerify(...)` rejected (lines 52-55: bad token, or the key set
\* could not be fetched): the strategy returns false, no strategy is left
jwtVerify_rejected ==
  /\ http.pc = "jwt_verify"
  /\ http' = tryStrategies(<<>>, http, secret, FALSE, FALSE).http
  /\ UNCHANGED <<browsers, tabs, chromePath, launched, pages, calls, secret, mcp, memo>>

\* the .secret file is removed from the working directory
secret_removed ==
  /\ secret.exists
  /\ secret' = [exists |-> FALSE, content |-> <<>>]
  /\ UNCHANGED <<browsers, tabs, chromePath, launched, pages, calls, http, mcp, memo>>

\* the requests: x-api-key not sent, empty, the key of the file, another key,
\* or sent under the upper-case name; Authorization not sent, a Bearer header
\* with a token that verifies or one that does not, or another scheme
ApiKeyHeaders ==
  {<<>>} \cup {[n \in {"x-api-key"} |-> v] : v \in {<<>>, <<"k">>, <<"x">>, <<"g">>}}
        \cup {[n \in {"X-API-KEY"} |-> <<"k">>]}

AuthorizationHeaders ==
  {<<>>} \cup {[n \in {"authorization"} |-> v] :
                v \in {Bearer \o <<"v">>, Bearer \o <<"w">>, Bearer,
                       <<"B", "a", "s", "i", "c", " ", "v">>,
                       <<"b", "e", "a", "r", "e", "r", " ", "v">>,
                       <<"B", "e", "a", "r", "e", "r", "v">>, <<>>}}

\* a function with the entries of both
Merge(f, g) ==
  [n \in (DOMAIN f) \cup (DOMAIN g) |-> IF n \in DOMAIN f THEN f[n] ELSE g[n]]

Requests == {Merge(a, b) : a \in ApiKeyHeaders, b \in AuthorizationHeaders}

AuthInit ==
  /\ http \in {NoRequest(config) : config \in Configs}
  /\ secret \in SecretFiles
  /\ browsers = [h \in Modes |-> Null]
  /\ tabs = NoTabs
  /\ chromePath = Null
  /\ launched = <<>>
  /\ pages = <<>>
  /\ calls = [p \in Callers |-> NewCall(p)]
  /\ mcp = IdleMcp
  /\ memo = NoMemo

AuthNext ==
  \/ \E headers \in Requests, readFails \in BOOLEAN, writeFails \in BOOLEAN :
       authenticate(headers, readFails, writeFails)
  \/ jwtVerify_resolved
  \/ jwtVerify_rejected
  \/ secret_removed

\* one middleware, one request at a time
AuthSpec == AuthInit /\ [][AuthNext]_vars

\* the .secret file in any condition: a key (also one saved with a tab before
\* it and a CRLF line end), empty, blank, or missing
AnySecretFiles ==
  SecretFiles \cup {[exists |-> TRUE, content |-> <<"\t", "k", "\r", "\n">>],
                    [exists |-> TRUE, content |-> <<>>],
                    [exists |-> TRUE, content |-> <<" ", "\n">>],
                    [exists |-> FALSE, content |-> <<>>]}

SecretInit ==
  /\ http \in {NoRequest(config) : config \in Configs}
  /\ secret \in AnySecretFiles
  /\ browsers = [h \in Modes |-> Null]
  /\ tabs = NoTabs
  /\ chromePath = Null
  /\ launched = <<>>
  /\ pages = <<>>
  /\ calls = [p \in Callers |-> NewCall(p)]
  /\ mcp = IdleMcp
  /\ memo = NoMemo

\* the middleware over a .secret file in any condition
SecretSpec == SecretInit /\ [][AuthNext]_vars

\* ===================================================================
\* The API key across loads: loadApiKey and verifyApiKey of the variant of
\* auth/index.ts that has proxied verification
\* ===================================================================
\* what generateApiKey() may return
Keys == {<<"g">>, <<"h">>, <<"i">>}

\* loadApiKey() with apiKey the key that generateApiKey() returns when it
\* is called: the trimmed content of .secret; when the file is missing or
\* cannot be read the new key is written, a failing write is logged, and the
\* new key is returned either way
loadApiKey_part_003(file, apiKey, readFails, writeFails) ==
  IF file.exists /\ ~readFails
    THEN [key |-> trim(file.content), file |-> file]
    ELSE [key |-> apiKey,
          file |-> IF writeFails THEN file
                   ELSE [exists |-> TRUE, content |-> apiKey]]

\* a load at start-up, with .secret absent: the key is generated and handed
\* to the operator
load_absent(apiKey, writeFails) ==
  /\ http.pc = "idle"
  /\ ~secret.exists
  /\ LET r == loadApiKey_part_003(secret, apiKey, FALSE, writeFails) IN
     /\ http' = [http EXCEPT !.pc = "loaded", !.issued = r.key]
     /\ secret' = r.file
  /\ UNCHANGED <<browsers, tabs, chromePath, launched, pages, calls, mcp, memo>>

\* verifyApiKey(providedKey): `providedKey === loadApiKey()`; the key that
\* generateApiKey() returns is a fresh one
verifyApiKey(provided, apiKey, readFails, writeFails) ==
  /\ http.pc \in {"loaded", "verified"}
  /\ apiKey \notin {provided, http.issued, trim(secret.content)}
  /\ LET r == loadApiKey_part_003(secret, apiKey, readFails, writeFails) IN
     /\ http' = [http EXCEPT !.pc = "verified", !.provided = provided,
                             !.accepted = (provided = r.key),
                             !.readFailed = @ \/ (secret.exists /\ readFails)]
     /\ secret' = r.file
  /\ UNCHANGED <<browsers, tabs, chromePath, launched, pages, calls, mcp, memo>>

KeyInit ==
  /\ http = NoRequest(DefaultConfig)
  /\ secret = [exists |-> FALSE, content |-> <<>>]
  /\ browsers = [h \in Modes |-> Null]
  /\ tabs = NoTabs
  /\ chromePath = Null
  /\ launched = <<>>
  /\ pages = <<>>
  /\ calls = [p \in Callers |-> NewCall(p)]
  /\ mcp = IdleMcp
  /\ memo = NoMemo

KeyNext ==
  \/ \E apiKey \in Keys, writeFails \in BOOLEAN : load_absent(apiKey, writeFails)
  \/ \E provided \in Keys \cup {<<"x">>}, apiKey \in Keys \cup {<<"j">>},
        readFails \in BOOLEAN, writeFails \in BOOLEAN :
       verifyApiKey(provided, apiKey, readFails, writeFails)

\* the key file under loads, with nobody else writing it
KeySpec == KeyInit /\ [][KeyNext]_vars

\* ===================================================================
\* The application's middleware stack, server.ts lines 165-231
\* ===================================================================
\* request paths are sequences of segments
Paths == {<<"api", "tabs", "list">>, <<"api", "resources", "clean">>,
          <<"mcp">>, <<"health">>, <<"jwt-verify">>, <<"api", "config">>}

Verbs == {"GET", "POST", "DELETE"}

\* the routes of the routers, below their mount path (routes/tabs.ts lines
\* 64-1122, routes/resources.ts lines 31 and 69)
Routers ==
  [tabsRouter |->
     {[verb |-> "POST", path |-> <<"open">>],
      [verb |-> "GET", path |-> <<"list">>],
      [verb |-> "GET", path |-> <<"screenshot", ":tabId">>],
      [verb |-> "GET", path |-> <<"url", ":tabId">>],
      [verb |-> "DELETE", path |-> <<"close", ":tabId">>]}
     \cup {[verb |-> "POST", path |-> <<name, ":tabId">>] :
             name \in {"goto", "click", "hover", "fill", "select", "eval",
                       "bringToFront", "focus", "goBack", "goForward",
                       "reload", "waitForSelector", "waitForFunction",
                       "waitForNavigation"}},
   resourcesRouter |->
     {[verb |-> "DELETE", path |-> <<"clean">>],
      [verb |-> "DELETE", path |-> <<"cleanAll">>]}]

\* a route serves the verb it is registered for and a path with its segments,
\* a parameter standing for any one segment
RouteMatches(route, path, verb) ==
  /\ route.verb = verb
  /\ Len(route.path) = Len(path)
  /\ \A i \in DOMAIN path : route.path[i] \in {path[i], ":tabId"}

\* faulty variant: the MCP endpoint is mounted without the middleware
Stack_openMcp ==
  <<[path |-> <<"jwt-verify">>, exact |-> TRUE, verb |-> "GET",
     chain |-> <<"jwtVerifyPage">>],
    [path |-> <<"api", "tabs">>, exact |-> FALSE, verb |-> "ANY",
     chain |-> <<"authenticate", "tabsRouter">>],
    [path |-> <<"api", "resources">>, exact |-> FALSE, verb |-> "ANY",
     chain |-> <<"authenticate", "resourcesRouter">>],
    [path |-> <<"mcp">>, exact |-> TRUE, verb |-> "POST",
     chain |-> <<"statelessHandler">>],
    [path |-> <<"health">>, exact |-> TRUE, verb |-> "GET",
     chain |-> <<"health">>],
    [path |-> <<>>, exact |-> FALSE, verb |-> "ANY",
     chain |-> <<"notFound">>]>>

\* the layers in the order they are registered: app.get('/jwt-verify') (165),
\* app.use('/api/tabs', authenticate, tabsRouter) (182),
\* app.use('/api/resources', authenticate, resourcesRouter) (183),
\* app.post('/mcp', authenticate, statelessHandler(...)) (189-201),
\* app.get('/health') (203), app.use('*') (225)
Stack ==
  <<[path |-> <<"jwt-verify">>, exact |-> TRUE, verb |-> "GET",
     chain |-> <<"jwtVerifyPage">>],
    [path |-> <<"api", "tabs">>, exact |-> FALSE, verb |-> "ANY",
     chain |-> <<"authenticate", "tabsRouter">>],
    [path |-> <<"api", "resources">>, exact |-> FALSE, verb |-> "ANY",
     chain |-> <<"authenticate", "resourcesRouter">>],
    [path |-> <<"mcp">>, exact |-> TRUE, verb |-> "POST",
     chain |-> <<"authenticate", "statelessHandler">>],
    [path |-> <<"health">>, exact |-> TRUE, verb |-> "GET",
     chain |-> <<"health">>],
    [path |-> <<>>, exact |-> FALSE, verb |-> "ANY",
     chain |-> <<"notFound">>]>>

\* app.use(mount, ...) serves the mount path and everything below it;
\* app.get / app.post serve the path itself, for their verb
Matches(layer, path, verb) ==
  /\ layer.verb \in {"ANY", verb}
  /\ IF layer.exact THEN path = layer.path
     ELSE /\ Len(path) >= Len(layer.path)
          /\ SubSeq(path, 1, Len(layer.path)) = layer.path

\* the first layer registered after the first `after` that serves the request
LayerAfter(after, path, verb) ==
  Stack[CHOOSE i \in (after + 1)..Len(Stack) :
          /\ Matches(Stack[i], path, verb)
          /\ \A j \in (after + 1)..(i - 1) : ~Matches(Stack[j], path, verb)]

\* the first layer registered that serves the request
Layer(path, verb) == LayerAfter(0, path, verb)

\* a handler that is no router answers the request; a router answers it when
\* it has a route for what follows the mount path
Answers(handler, layer, path, verb) ==
  handler \in DOMAIN Routers
    => \E route \in Routers[handler] :
         RouteMatches(route, SubSeq(path, Len(layer.path) + 1, Len(path)), verb)

\* the handlers that run from `handler` of the layer on: the handler, and when
\* it is a router with no route for the request, which calls next(), the
\* layer registered after it that serves the request (the 404 handler)
Handlers(handler, layer, path, verb) ==
  IF Answers(handler, layer, path, verb) THEN <<handler>>
  ELSE LET i == CHOOSE k \in DOMAIN Stack : Stack[k] = layer IN
       <<handler>> \o LayerAfter(i, path, verb).chain

\* the handlers have run: the 404 handler answers 404 (lines 225-231)
handle(h, handlers) ==
  [h EXCEPT !.handlers = @ \o handlers,
            !.status = IF \E i \in DOMAIN handlers : handlers[i] = "notFound"
                         THEN 404 ELSE @]

\* the middleware has called next() and the layer's handler has not run yet
HandlerDue ==
  /\ http.pc = "done"
  /\ http.nextCalls > 0
  /\ http.handlers = <<>>
  /\ Len(Layer(http.path, http.verb).chain) > 1

\* a request arrives: the first function of its layer runs, which is the
\* authentication middleware for the layers that name it
dispatch(path, verb, headers, readFails, writeFails) ==
  /\ http.pc \in {"idle", "done"}
  /\ ~HandlerDue
  /\ LET layer == Layer(path, verb)
         h == [NoRequest(http.config) EXCEPT !.headers = headers,
                                            !.path = path, !.verb = verb] IN
     IF Head(layer.chain) = "authenticate"
       THEN LET r == createAuthMiddleware(h, secret, readFails, writeFails) IN
            /\ http' = r.http
            /\ secret' = r.file
       ELSE /\ http' = handle([h EXCEPT !.pc = "done"],
                              Handlers(Head(layer.chain), layer, path, verb))
            /\ UNCHANGED secret
  /\ UNCHANGED <<browsers, tabs, chromePath, launched, pages, calls, mcp, memo>>

\* next(): the function after the middleware in the layer runs, and when it
\* is a router that has no route for the request, the 404 handler after it
next ==
  /\ HandlerDue
  /\ LET layer == Layer(http.path, http.verb) IN
     http' = handle(http, Handlers(layer.chain[2], layer, http.path, http.verb))
  /\ UNCHANGED <<browsers, tabs, chromePath, launched, pages, calls, secret, mcp, memo>>

ServerInit == AuthInit

\* the credentials sent: none, the key of the file, another key, a token that
\* verifies, one that does not
Credentials ==
  {<<>>} \cup {[n \in {"x-api-key"} |-> v] : v \in {<<"k">>, <<"x">>}}
        \cup {[n \in {"authorization"} |-> Bearer \o v] : v \in {<<"v">>, <<"w">>}}

ServerNext ==
  \/ \E path \in Paths, verb \in Verbs, headers \in Credentials,
        readFails \in BOOLEAN, writeFails \in BOOLEAN :
       dispatch(path, verb, headers, readFails, writeFails)
  \/ next
  \/ jwtVerify_resolved
  \/ jwtVerify_rejected
  \/ secret_removed

\* the server's routing, one request at a time
ServerSpec == ServerInit /\ [][ServerNext]_vars

\* what the browsers do on their own
Backend ==
  \/ \E b \in DOMAIN launched : disconnected(b)
  \/ \E pg \in DOMAIN pages : page_closed(pg)

\* ===================================================================
\* Browser-proxied JWT verification, verifyJWTInBrowser (the variant of
\* auth/index.ts with jwt.proxy), a client of the registry
\* ===================================================================
\* the caller of the registry that the middleware is
Verifier == 1

\* the registry as a request finds it: the tab map and the slots
Registry == [tabs |-> tabs, browsers |-> browsers]

\* how many browsers have been launched and pages created so far
Processes == [launched |-> Len(launched), pages |-> Len(pages)]

\* the strategy returns false: no strategy is left to try
verifyJWTInBrowser_false(h) == tryStrategies(<<>>, h, secret, FALSE, FALSE).http

\* the strategy returns resultText === 'valid'
verifyJWTInBrowser_return(h) ==
  IF h.resultText = "valid" THEN afterSuccess(h, <<>>)
  ELSE verifyJWTInBrowser_false(h)

\* browserManager.getPageByTabId(tabId): the page tracked under the id, if any
getPageByTabId(tabId) ==
  IF tabId \in DOMAIN tabs THEN tabs[tabId].page ELSE Null

\* the strategy calls verifyJWTInBrowser, which calls
\* openTab({url: verifyUrl, headless: true})
verifyJWTInBrowser ==
  /\ http.pc = "jwt_verify"
  /\ http.config.proxy
  /\ openTab_call(Verifier, TRUE, TRUE)
  /\ http' = [http EXCEPT !.pc = "proxy_open", !.cycle = Append(@, "openTab"),
                          !.before = [registry |-> Registry,
                                      processes |-> Processes]]
  /\ UNCHANGED <<chromePath, launched, pages, secret, mcp, memo>>

\* `await browserManager.openTab(...)` settled: rejected, the catch returns
\* false; fulfilled with the id of the tab just registered, the page is looked
\* up and page.evaluate started (a missing page throws into the catch)
verifyJWTInBrowser_opened ==
  /\ http.pc = "proxy_open"
  /\ calls[Verifier].pc = "done"
  /\ LET tabId == Len(pages) IN
     http' = IF calls[Verifier].result # "ok"
               THEN verifyJWTInBrowser_false(http)
             ELSE IF getPageByTabId(tabId) = Null
               THEN verifyJWTInBrowser_false([http EXCEPT !.tab = tabId])
             ELSE [http EXCEPT !.pc = "proxy_eval", !.tab = tabId,
                               !.cycle = Append(@, "evaluate")]
  /\ UNCHANGED <<browsers, tabs, chromePath, launched, pages, calls, secret, mcp, memo>>

\* `await page.evaluate(...)` resolved with 'valid' or 'invalid', and
\* closeTab(tabId) is called
verifyJWTInBrowser_evaluated(resultText) ==
  /\ http.pc = "proxy_eval"
  /\ pages[http.tab].open
  /\ resultText = "valid" => token(http.headers) \in ValidTokens
  /\ closeTab_call(Verifier, http.tab)
  /\ http' = [http EXCEPT !.pc = "proxy_close", !.resultText = resultText,
                           !.cycle = Append(@, "closeTab")]
  /\ UNCHANGED <<browsers, tabs, chromePath, launched, pages, secret, mcp, memo>>

\* `await page.evaluate(...)` rejected: the catch returns false
verifyJWTInBrowser_evaluate_rejected ==
  /\ http.pc = "proxy_eval"
  /\ http' = verifyJWTInBrowser_false(http)
  /\ UNCHANGED <<browsers, tabs, chromePath, launched, pages, calls, secret, mcp, memo>>

\* `await browserManager.closeTab(tabId)` settled: fulfilled, the verdict is
\* returned; rejected, the catch returns false
verifyJWTInBrowser_closed ==
  /\ http.pc = "proxy_close"
  /\ calls[Verifier].pc = "done"
  /\ http' = IF calls[Verifier].result = "ok"
               THEN verifyJWTInBrowser_return(http)
               ELSE verifyJWTInBrowser_false(http)
  /\ UNCHANGED <<browsers, tabs, chromePath, launched, pages, calls, secret, mcp, memo>>

\* the steps by which the registry call of the verifier goes on
Resume(p) ==
  \/ initialize_closed(p)
  \/ \E found \in BOOLEAN : findChromeBrowser_settled(p, found)
  \/ initialize_launched(p)
  \/ initialize_launch_reject(p)
  \/ openTab_initialized(p)
  \/ openTab_registered(p)
  \/ openTab_newPage_reject(p)
  \/ openTab_navigated(p)
  \/ openTab_goto_reject(p)
  \/ closeTab_deleted(p)
  \/ closeTab_page_reject(p)
  \/ closeTab_browser_closed(p)
  \/ closeTab_browser_reject(p)

\* the strategy is about to call verifyJWTInBrowser in the same turn, or a
\* registry call of the verifier has settled and its continuation in
\* verifyJWTInBrowser is the next thing to run
ContinuationDue ==
  \/ http.pc = "jwt_verify"
  \/ http.pc \in {"proxy_open", "proxy_close"} /\ calls[Verifier].pc = "done"

\* auth.jwt = {enabled: true, proxy: true} with jwksUrl not given, a URL, or
\* a string that is no URL
ProxyConfigs ==
  [apiKey : {"false"}, jwt : {"true"},
   jwksUrl : {"undefined", "url", "malformed"}, proxy : {TRUE}]

ProxyInit ==
  /\ http \in {NoRequest(config) : config \in ProxyConfigs}
  /\ secret \in SecretFiles
  /\ browsers = [h \in Modes |-> Null]
  /\ tabs = NoTabs
  /\ chromePath \in {Null} \cup ConfigPaths
  /\ launched = <<>>
  /\ pages = <<>>
  /\ calls = [p \in Callers |-> NewCall(p)]
  /\ mcp = IdleMcp
  /\ memo = NoMemo

ProxyNext ==
  \/ \E headers \in Requests : authenticate(headers, FALSE, FALSE)
  \/ verifyJWTInBrowser
  \/ verifyJWTInBrowser_opened
  \/ \E resultText \in {"valid", "invalid"} : verifyJWTInBrowser_evaluated(resultText)
  \/ verifyJWTInBrowser_evaluate_rejected
  \/ verifyJWTInBrowser_closed
  \/ Resume(Verifier)
  \/ (~ContinuationDue /\ Backend)

\* the middleware with proxied verification as the only client of the registry
ProxySpec == ProxyInit /\ [][ProxyNext]_vars

\* ===================================================================
\* The tab routes, routes/tabs.ts
\* ===================================================================
\* the routes that take :tabId, and POST /open: the registry method each
\* calls, the body fields it requires and the message of its 400
TabRoutes ==
  [goto |-> [fn |-> "navigateTab", required |-> {"url"},
             message |-> "URL is required"],
   screenshot |-> [fn |-> "screenshotTab", required |-> {}, message |-> ""],
   click |-> [fn |-> "clickElement", required |-> {"selector"},
              message |-> "Selector is required"],
   hover |-> [fn |-> "hoverElement", required |-> {"selector"},
              message |-> "Selector is required"],
   fill |-> [fn |-> "fillField", required |-> {"selector", "value"},
             message |-> "Selector and value are required"],
   select |-> [fn |-> "selectOption", required |-> {"selector", "value"},
               message |-> "Selector and value are required"],
   eval |-> [fn |-> "evaluateScript", required |-> {"script"},
             message |-> "Script is required"],
   close |-> [fn |-> "closeTab", required |-> {}, message |-> ""],
   bringToFront |-> [fn |-> "bringToFront", required |-> {}, message |-> ""],
   focus |-> [fn |-> "focusElement", required |-> {"selector"},
              message |-> "Selector is required"],
   goBack |-> [fn |-> "goBack", required |-> {}, message |-> ""],
   goForward |-> [fn |-> "goForward", required |-> {}, message |-> ""],
   reload |-> [fn |-> "reloadTab", required |-> {}, message |-> ""],
   waitForSelector |-> [fn |-> "waitForSelector", required |-> {"selector"},
                        message |-> "Selector is required"],
   waitForFunction |-> [fn |-> "waitForFunction",
                        required |-> {"functionScript"},
                        message |-> "Function script is required"],
   waitForNavigation |-> [fn |-> "waitForNavigation", required |-> {},
                          message |-> ""],
   url |-> [fn |-> "getTabUrl", required |-> {}, message |-> ""]]

OpenRoute ==
  [fn |-> "openTab", required |-> {"url"}, message |-> "URL is required"]

RouteOf(route) == IF route = "open" THEN OpenRoute ELSE TabRoutes[route]

\* req.body as express.json() leaves it: the fields the route reads, each not
\* sent, the empty string, or a value
Bodies(route) == [RouteOf(route).required -> {Undefined, <<>>, <<"v">>}]

\* the messages of the errors
TabNotFoundError(tabId) == <<"Tab with ID ", tabId, " not found">>

\* res.status(code).json({success: false, error})
fail(h, code, error) ==
  [h EXCEPT !.pc = "done", !.status = code,
            !.json = [success |-> FALSE, error |-> error]]

\* res.json({success: true, ...})
succeed(h) ==
  [h EXCEPT !.pc = "done", !.status = 200, !.json = [success |-> TRUE]]

\* the validation at the head of a handler: `if (!request.<field>)`
lacks_never(route, body) == FALSE

lacks(route, body) == \E f \in RouteOf(route).required : ~Truthy(body[f])

\* faulty variant: every failure is answered 500
catch_generic(h, error) == fail(h, 500, <<error>>)

\* the catch clause of a handler: 404 with the error's message for
\* TabNotFoundError where the route has that clause, else 500
catch(h, error) ==
  IF error = "TabNotFoundError" /\ h.route # "open"
    THEN fail(h, 404, TabNotFoundError(h.tabId))
    ELSE fail(h, 500, <<error>>)

\* request.waitForNavigation of POST /click/:tabId (true, false or not sent)
\* as clickElement takes it: its parameter defaults to false (BrowserManager.ts
\* line 154)
request_waitForNavigation(waitForNavigation) == waitForNavigation = "true"

\* a handler of the router runs for a request: it answers 400 if a required
\* field is missing, else calls the registry method and awaits it; the click
\* route passes request.waitForNavigation on (line 315)
handler(route, tabId, body, headless, waitForNavigation) ==
  /\ http.pc = "idle"
  /\ Ready(1)
  /\ LET h == [NoRequest(http.config) EXCEPT !.route = route, !.tabId = tabId,
                                            !.body = body] IN
     IF lacks(route, body)
       THEN /\ http' = fail(h, 400, <<RouteOf(route).message>>)
            /\ UNCHANGED <<browsers, tabs, calls>>
       ELSE /\ http' = [h EXCEPT !.pc = "route_wait", !.called = TRUE]
            /\ IF route = "open"
                 THEN openTab_call(1, headless, TRUE)
               ELSE IF route = "close"
                 THEN closeTab_call(1, tabId) /\ UNCHANGED <<browsers, tabs>>
               ELSE IF route = "click"
                 THEN clickElement_call(
                        1, tabId, request_waitForNavigation(waitForNavigation))
                      /\ UNCHANGED <<browsers, tabs>>
               ELSE pageOp_call(1, RouteOf(route).fn, tabId)
                      /\ UNCHANGED <<browsers, tabs>>
  /\ UNCHANGED <<chromePath, launched, pages, secret, mcp, memo>>

\* the awaited registry call has settled, fulfilled or rejected with the
\* error that the handler catches: the handler answers
handler_settled ==
  /\ http.pc = "route_wait"
  /\ calls[1].pc = "done"
  /\ LET h == [http EXCEPT !.outcome = calls[1].result] IN
     http' = IF calls[1].result = "ok" THEN succeed(h)
             ELSE catch(h, calls[1].result)
  /\ calls' = [calls EXCEPT ![1] = NewCall(1)]
  /\ UNCHANGED <<browsers, tabs, chromePath, launched, pages, secret, mcp, memo>>

\* the answer is sent and the handler returns
handler_returned ==
  /\ http.pc = "done"
  /\ http' = NoRequest(http.config)
  /\ UNCHANGED <<browsers, tabs, chromePath, launched, pages, calls, secret, mcp, memo>>

\* the handler is the next thing to run, or is answering
AnswerDue ==
  \/ http.pc = "route_wait" /\ calls[1].pc = "done"
  \/ http.pc = "done"

RouteNext ==
  \/ \E route \in DOMAIN TabRoutes \ {"click"}, tabId \in TabIds :
       \E body \in Bodies(route) : handler(route, tabId, body, TRUE, "undefined")
  \/ \E tabId \in TabIds, waitForNavigation \in Flags :
       \E body \in Bodies("click") :
         handler("click", tabId, body, TRUE, waitForNavigation)
  \/ \E body \in Bodies("open"), headless \in Modes :
       handler("open", Null, body, headless, "undefined")
  \/ handler_settled
  \/ handler_returned
  \/ Resume(1)
  \/ pageOp_resolved(1)
  \/ pageOp_rejected(1)
  \/ click_resolved(1)
  \/ click_rejected(1)
  \/ waitForNavigation_resolved(1)
  \/ waitForNavigation_rejected(1)
  \/ (~AnswerDue /\ Backend)

\* the router serving one request at a time, each past the middleware
RouteSpec == Init /\ [][RouteNext]_vars

\* ===================================================================
\* The screenshot resources: the MCP tools and handlers of mcp/index.ts and
\* the routes of routes/resources.ts, over the one map ALL_IMAGES
\* ===================================================================
\* a resource URI `mcp://browser_screenshots/${tabId}/${Date.now()}.png`
Uri(tabId, now) == <<tabId, now>>

\* the URIs a client may name: those the tool can make, and one it cannot
Uris == {Uri(t, n) : t \in TabIds \cup {Null}, n \in 0..MaxClock}

\* what screenshotTab resolves with
Blobs == {"a", "b"}

\* lines 133-147 of the tool: the entry for listing and the entry for reading
Resource(tabId, uri, blob) ==
  [list |-> [uri |-> uri, name |-> <<"Screenshot of tab ", tabId>>,
             mimeType |-> "image/png"],
   read |-> [uri |-> uri, name |-> <<"Screenshot of tab ", tabId>>,
             mimeType |-> "image/png", blob |-> blob]]

\* faulty variant: a new screenshot evicts the earlier ones
set_evicting(images, uri, resource) == [u \in {uri} |-> resource]

\* ALL_IMAGES.set(uri, resource)
set(images, uri, resource) ==
  [u \in (DOMAIN images) \cup {uri} |-> IF u = uri THEN resource ELSE images[u]]

\* the ListResources handler, lines 32-36
ListResources(images) == {images[u].list : u \in DOMAIN images}

\* the ReadResource handler, lines 39-49: the contents, or the error
\* 'Resource not found' thrown
ReadResource(images, uri) ==
  IF uri \in DOMAIN images
    THEN [threw |-> FALSE, contents |-> <<images[uri].read>>]
    ELSE [threw |-> TRUE, contents |-> <<>>]

\* faulty variant: the answer always says removed
clean_always(images, uri) ==
  [images |-> Without(images, {uri}), removed |-> TRUE]

\* `const existed = ALL_IMAGES.has(uri); ALL_IMAGES.delete(uri)`
clean(images, uri) ==
  [images |-> Without(images, {uri}), removed |-> uri \in DOMAIN images]

\* `const count = ALL_IMAGES.size; ALL_IMAGES.clear()`
cleanAll(images) ==
  [images |-> NoImages, count |-> Cardinality(DOMAIN images)]

\* no answer is being sent
Quiet == mcp.result.op = "none"

\* Date.now() moves on
tick ==
  /\ Quiet
  /\ mcp.now < MaxClock
  /\ mcp' = [mcp EXCEPT !.now = @ + 1]
  /\ UNCHANGED <<browsers, tabs, chromePath, launched, pages, calls, http, secret, memo>>

\* the tool browser_screenshot is called: it calls screenshotTab and awaits it
browser_screenshot(tabId) ==
  /\ Quiet
  /\ mcp.pc = "idle"
  /\ pageOp_call(1, "screenshotTab", tabId)
  /\ mcp' = [mcp EXCEPT !.pc = "screenshot_wait", !.tabId = tabId]
  /\ UNCHANGED <<browsers, tabs, chromePath, launched, pages, http, secret, memo>>

\* screenshotTab settled: fulfilled, the screenshot is stored under the URI
\* made of the tab id and the time; rejected, the tool fails
browser_screenshot_settled(blob) ==
  /\ Quiet
  /\ mcp.pc = "screenshot_wait"
  /\ calls[1].pc = "done"
  /\ LET uri == Uri(mcp.tabId, mcp.now) IN
     mcp' = IF calls[1].result = "ok"
              THEN [mcp EXCEPT !.pc = "idle", !.tabId = Null,
                      !.ALL_IMAGES = set(@, uri, Resource(mcp.tabId, uri, blob))]
              ELSE [mcp EXCEPT !.pc = "idle", !.tabId = Null]
  /\ UNCHANGED <<browsers, tabs, chromePath, launched, pages, calls, http, secret, memo>>

\* the tool browser_clean_resource, lines 571-592
browser_clean_resource(uri) ==
  /\ Quiet
  /\ LET r == clean(mcp.ALL_IMAGES, uri) IN
     mcp' = [mcp EXCEPT !.ALL_IMAGES = r.images,
                        !.result = [NoResult EXCEPT !.op = "clean", !.uri = uri,
                                      !.removed = r.removed, !.status = 200]]
  /\ UNCHANGED <<browsers, tabs, chromePath, launched, pages, calls, http, secret, memo>>

\* the tool browser_clean_all_resources, lines 594-610
browser_clean_all_resources ==
  /\ Quiet
  /\ LET r == cleanAll(mcp.ALL_IMAGES) IN
     mcp' = [mcp EXCEPT !.ALL_IMAGES = r.images,
                        !.result = [NoResult EXCEPT !.op = "cleanAll",
                                      !.count = r.count, !.status = 200]]
  /\ UNCHANGED <<browsers, tabs, chromePath, launched, pages, calls, http, secret, memo>>

\* DELETE /api/resources/clean, routes/resources.ts lines 31-58: 400 without
\* a uri in the body
resources_clean(uri) ==
  /\ Quiet
  /\ mcp' =
       IF ~Truthy(uri)
         THEN [mcp EXCEPT !.result = [NoResult EXCEPT !.op = "clean", !.uri = uri,
                                        !.status = 400]]
         ELSE LET r == clean(mcp.ALL_IMAGES, uri) IN
              [mcp EXCEPT !.ALL_IMAGES = r.images,
                          !.result = [NoResult EXCEPT !.op = "clean", !.uri = uri,
                                        !.removed = r.removed, !.status = 200]]
  /\ UNCHANGED <<browsers, tabs, chromePath, launched, pages, calls, http, secret, memo>>

\* DELETE /api/resources/cleanAll, routes/resources.ts lines 70-86
resources_cleanAll ==
  /\ Quiet
  /\ LET r == cleanAll(mcp.ALL_IMAGES) IN
     mcp' = [mcp EXCEPT !.ALL_IMAGES = r.images,
                        !.result = [NoResult EXCEPT !.op = "cleanAll",
                                      !.count = r.count, !.status = 200]]
  /\ UNCHANGED <<browsers, tabs, chromePath, launched, pages, calls, http, secret, memo>>

\* the answer is sent
answered ==
  /\ ~Quiet
  /\ mcp' = [mcp EXCEPT !.result = NoResult]
  /\ UNCHANGED <<browsers, tabs, chromePath, launched, pages, calls, http, secret, memo>>

\* the screenshot tool's registry call has settled and the tool is the next
\* thing to run
StoreDue == mcp.pc = "screenshot_wait" /\ calls[1].pc = "done"

\* the tools that open and close tabs, called while no screenshot is being
\* taken, and what the registry and the browsers do meanwhile
ResourceNext ==
  \/ tick
  \/ \E tabId \in TabIds : browser_screenshot(tabId)
  \/ \E blob \in Blobs : browser_screenshot_settled(blob)
  \/ \E uri \in Uris : browser_clean_resource(uri)
  \/ browser_clean_all_resources
  \/ \E uri \in Uris \cup {Undefined, <<>>} : resources_clean(uri)
  \/ resources_cleanAll
  \/ answered
  \/ (Quiet /\ mcp.pc = "idle" /\ openTab(1, TRUE, TRUE))
  \/ (Quiet /\ mcp.pc = "idle" /\ \E id \in TabIds : closeTab(1, id))
  \/ (Quiet /\ mcp.pc = "idle" /\ close(1))
  \/ (Quiet /\ (close_resume(1) \/ close_reject(1)))
  \/ (Quiet /\ Resume(1))
  \/ (Quiet /\ (pageOp_resolved(1) \/ pageOp_rejected(1)))
  \/ (Quiet /\ ~StoreDue /\ Backend)

\* the screenshot store next to the registry, one tool call at a time
ResourceSpec == Init /\ [][ResourceNext]_vars

\* clicks, with and without the navigation wait, on the tabs one caller opens
ClickNext ==
  \/ \E h \in Modes, url \in BOOLEAN : openTab(1, h, url)
  \/ \E id \in TabIds : closeTab(1, id)
  \/ \E id \in TabIds, waitForNavigation \in BOOLEAN :
       clickElement(1, id, waitForNavigation)
  \/ click_resolved(1)
  \/ click_rejected(1)
  \/ waitForNavigation_resolved(1)
  \/ waitForNavigation_rejected(1)
  \/ pageOp_resolved(1)
  \/ pageOp_rejected(1)
  \/ Resume(1)
  \/ Backend

ClickSpec == Init /\ [][ClickNext]_vars

\* ------------------------------------ BrowserManagerSingleton, lines 409-411
\* what BrowserManagerSingleton is called with: nothing (part_003 line 48),
\* or config.chromePath, which is null or a path (server.ts lines 179, 186)
Arguments == {"undefined", "null", "/usr/bin/chrome"}

ChromePaths == {"null", "/usr/bin/chrome"}

Components == {"routes", "server", "verifier"}

\* the tabs opened through the components in one run
MaxIssued == 3

\* lodash memoize: the cache key is the first argument; undefined, null and
\* a string are three keys.  A cached instance is returned, otherwise
\* `new BrowserManager(chromePath)` is made and cached.
BrowserManagerSingleton(m, key) ==
  IF key \in DOMAIN m.cache
    THEN [memo |-> m, manager |-> m.cache[key]]
    ELSE LET made == Len(m.managers) + 1 IN
         [memo |-> [m EXCEPT !.managers = Append(@, {}),
                             !.cache = [k \in DOMAIN @ \cup {key} |->
                                          IF k = key THEN made ELSE @[k]]],
          manager |-> made]

\* server.ts line 179, routes/tabs.ts lines 25-27, once at start-up
initializeTabsRoutes ==
  /\ memo.routes = Null
  /\ LET r == BrowserManagerSingleton(memo, memo.config) IN
     memo' = [r.memo EXCEPT !.routes = r.manager]
  /\ UNCHANGED <<browsers, tabs, chromePath, launched, pages, calls, http, secret, mcp>>

\* server.ts line 186, mcp/index.ts lines 6-7: the factory run for a request
\* to /mcp
initializeMcpServer ==
  /\ memo.routes # Null
  /\ LET r == BrowserManagerSingleton(memo, memo.config) IN
     memo' = [r.memo EXCEPT !.server = r.manager]
  /\ UNCHANGED <<browsers, tabs, chromePath, launched, pages, calls, http, secret, mcp>>

\* part_003 line 48: the proxied verification of a request asks for the
\* BrowserManager without an argument
verifyJWTInBrowser_manager ==
  /\ memo.routes # Null
  /\ LET r == BrowserManagerSingleton(memo, "undefined") IN
     memo' = [r.memo EXCEPT !.verifier = r.manager]
  /\ UNCHANGED <<browsers, tabs, chromePath, launched, pages, calls, http, secret, mcp>>

\* the tabs a component sees: getTabs of the instance it holds
tabsOf(m, component) ==
  IF m[component] = Null THEN {} ELSE m.managers[m[component]]

\* a component opens a tab: line 104 of the instance it holds, with a new id
tabs_set(component) ==
  /\ memo[component] # Null
  /\ memo.issued < MaxIssued
  /\ memo' = [memo EXCEPT !.issued = @ + 1,
                          !.managers[memo[component]] = @ \cup {memo.issued + 1}]
  /\ UNCHANGED <<browsers, tabs, chromePath, launched, pages, calls, http, secret, mcp>>

\* a component closes a tab its instance tracks: line 238
tabs_delete(component, tabId) ==
  /\ memo[component] # Null
  /\ tabId \in memo.managers[memo[component]]
  /\ memo' = [memo EXCEPT !.managers[memo[component]] = @ \ {tabId}]
  /\ UNCHANGED <<browsers, tabs, chromePath, launched, pages, calls, http, secret, mcp>>

SingletonInit ==
  /\ http = NoRequest(DefaultConfig)
  /\ secret = [exists |-> TRUE, content |-> <<"k">>]
  /\ browsers = [h \in Modes |-> Null]
  /\ tabs = NoTabs
  /\ chromePath = Null
  /\ launched = <<>>
  /\ pages = <<>>
  /\ calls = [p \in Callers |-> NewCall(p)]
  /\ mcp = IdleMcp
  /\ memo \in {[NoMemo EXCEPT !.config = c] : c \in ChromePaths}

SingletonNext ==
  \/ initializeTabsRoutes
  \/ initializeMcpServer
  \/ verifyJWTInBrowser_manager
  \/ \E c \in Components : tabs_set(c)
  \/ \E c \in Components, id \in 1..MaxIssued : tabs_delete(c, id)

SingletonSpec == SingletonInit /\ [][SingletonNext]_vars

\* ------------------------- opening a tab: POST /api/tabs/open, browser_open_tab
\* BrowserManager.ts line 87: `request.headless ?? true`
request_headless(headless) ==
  IF headless = "undefined" THEN TRUE ELSE headless = "true"

\* mcp/index.ts line 26: `headless: args.headless ?? false`
args_headless(headless) ==
  IF headless = "undefined" THEN "false" ELSE headless

\* routes/tabs.ts lines 64-90 with a url in the body: req.body is what
\* openTab is passed
tabs_open(headless) ==
  /\ http.pc = "idle"
  /\ mcp.pc = "idle"
  /\ http' = [NoRequest(http.config) EXCEPT
                !.route = "open", !.pc = "route_wait", !.called = TRUE,
                !.body = [url |-> <<"v">>, headless |-> headless],
                !.before = Registry]
  /\ openTab_call(1, request_headless(headless), TRUE)
  /\ UNCHANGED <<chromePath, launched, pages, secret, mcp, memo>>

\* mcp/index.ts lines 15-36: the tool passes openTab its url and its headless
\* argument, false when not given
browser_open_tab(headless) ==
  /\ http.pc = "idle"
  /\ mcp.pc = "idle"
  /\ mcp' = [mcp EXCEPT !.pc = "open_wait",
                        !.args = [url |-> <<"v">>, headless |-> headless,
                                  before |-> Registry]]
  /\ openTab_call(1, request_headless(args_headless(headless)), TRUE)
  /\ UNCHANGED <<chromePath, launched, pages, http, secret, memo>>

\* openTab settled: the tool returns the tab id, or fails
browser_open_tab_settled ==
  /\ mcp.pc = "open_wait"
  /\ calls[1].pc = "done"
  /\ mcp' = [mcp EXCEPT !.pc = "idle", !.args = <<>>]
  /\ calls' = [calls EXCEPT ![1] = NewCall(1)]
  /\ UNCHANGED <<browsers, tabs, chromePath, launched, pages, http, secret, memo>>

\* the tool or the handler is the next thing to run
OpenDue == AnswerDue \/ (mcp.pc = "open_wait" /\ calls[1].pc = "done")

OpenNext ==
  \/ \E headless \in Flags : tabs_open(headless)
  \/ \E headless \in Flags : browser_open_tab(headless)
  \/ handler_settled
  \/ handler_returned
  \/ browser_open_tab_settled
  \/ (http.pc = "idle" /\ mcp.pc = "idle" /\ \E id \in TabIds : closeTab(1, id))
  \/ close_resume(1)
  \/ close_reject(1)
  \/ Resume(1)
  \/ (~OpenDue /\ Backend)

\* tabs opened through the route and through the tool, one request at a time
OpenSpec == Init /\ [][OpenNext]_vars

\* ------------------------------------------------------- specification
Step(p, ops) ==
  \/ \E h \in Modes : initialize(p, h)
  \/ \E h \in Modes, url \in BOOLEAN : openTab(p, h, url)
  \/ \E id \in TabIds : closeTab(p, id)
  \/ \E op \in ops, id \in TabIds : pageOp(p, op, id)
  \/ close(p)
  \/ close_resume(p)
  \/ close_reject(p)
  \/ initialize_closed(p)
  \/ \E found \in BOOLEAN : findChromeBrowser_settled(p, found)
  \/ initialize_launched(p)
  \/ initialize_launch_reject(p)
  \/ openTab_initialized(p)
  \/ openTab_registered(p)
  \/ openTab_newPage_reject(p)
  \/ openTab_navigated(p)
  \/ openTab_goto_reject(p)
  \/ closeTab_deleted(p)
  \/ closeTab_page_reject(p)
  \/ closeTab_browser_closed(p)
  \/ closeTab_browser_reject(p)
  \/ pageOp_resolved(p)
  \/ pageOp_rejected(p)

Configure == \E path \in {Null} \cup ConfigPaths : updateChromePath(path)

Listing(p) == getTabs(p) \/ getTabs_titled(p) \/ getTabs_title_reject(p)

\* one call at a time: a single caller, each call settled before the next
SeqNext == Step(1, PageOps) \/ Listing(1) \/ Backend \/ Configure

SeqSpec == Init /\ [][SeqNext]_vars

\* the per-tab operations issued while other calls are in flight
RacingOps == {"navigateTab", "evaluateScript", "getTabUrl"}

\* any number of calls in flight at once
Next == (\E p \in Callers : Step(p, RacingOps)) \/ Backend

Spec == Init /\ [][Next]_vars

\* The registry as concurrent calls can leave it once they have all settled:
\* no, one or two browsers running (launched with the located executable), each
\* held in the slot of its mode, and every page open, observed and tracked
\* under its mode.
QuiescentLaunched ==
  {<<>>}
    \cup {<<[headless |-> h, alive |-> TRUE, exe |-> Located]>> : h \in Modes}
    \cup {<<[headless |-> h, alive |-> TRUE, exe |-> Located],
            [headless |-> ~h, alive |-> TRUE, exe |-> Located]>> : h \in Modes}

QuiescentPages(ln) ==
  UNION {[1..n -> {[browser |-> b, open |-> TRUE, observed |-> TRUE] :
                     b \in DOMAIN ln}] : n \in 0..MaxTabs}

QuiescentInit ==
  /\ http = NoRequest(DefaultConfig)
  /\ secret = [exists |-> TRUE, content |-> <<"k">>]
  /\ chromePath \in {Null} \cup ConfigPaths
  /\ launched \in QuiescentLaunched
  /\ browsers = [h \in Modes |->
                  IF \E b \in DOMAIN launched : launched[b].headless = h
                    THEN CHOOSE b \in DOMAIN launched : launched[b].headless = h
                    ELSE Null]
  /\ pages \in QuiescentPages(launched)
  /\ tabs = [t \in DOMAIN pages |->
               [page |-> t, visible |-> launched[pages[t].browser].headless]]
  /\ calls = [p \in Callers |-> NewCall(p)]
  /\ mcp = IdleMcp
  /\ memo = NoMemo

\* from such a state on, one call at a time
QuiescentSpec == QuiescentInit /\ [][SeqNext]_vars

\* ===================================================================
\* Properties
\* ===================================================================
Running(h) == Alive(browsers[h])

Launching(h) ==
  \E p \in Callers :
    /\ calls[p].pc \in {"close_wait", "init_closed", "init_locate", "init_launch"}
    /\ calls[p].fn \in {"initialize", "openTab"}
    /\ calls[p].headless = h

\* caller p takes a step of the call it has in flight or starts
Acts(p) == calls'[p] # calls[p]

\* caller p starts a call of one of the methods in fns
Starts(p, fns) == Ready(p) /\ Acts(p) /\ calls'[p].fn \in fns

\* caller p's call of method fn settles with outcome res
Settles(p, fn, res) ==
  /\ Acts(p)
  /\ calls'[p].pc = "done"
  /\ calls'[p].fn = fn
  /\ calls'[p].result = res

\* C1: while the other mode's process is RUNNING with tracked tabs, a step of
\* an openTab call neither asks that process to close nor removes one of its
\* tabs, so that after openTab(headless:true) then openTab(headless:false)
\* both processes run and both tabs are tracked.
C1_OpenTabLeavesOtherMode ==
  [][\A p \in Callers :
       LET other == ~calls'[p].headless IN
       (/\ Acts(p)
        /\ calls'[p].fn = "openTab"
        /\ calls'[p].pc # "done"
        /\ Running(other)
        /\ TabsOf(tabs, other) # {})
         => /\ ~(calls'[p].pc = "close_wait" /\ calls'[p].key = other)
            /\ TabsOf(tabs, other) \subseteq DOMAIN tabs']_vars

\* the headless process runs with a tracked tab and an openTab for the headed
\* mode is in flight
C1_Witness ==
  /\ Running(TRUE)
  /\ TabsOf(tabs, TRUE) # {}
  /\ calls[1].fn = "openTab"
  /\ calls[1].headless = FALSE
  /\ calls[1].pc \notin {"idle", "done"}

TabOps == PageOps \cup {"closeTab"}

\* C2: a per-tab operation called with an id that is not tracked settles at
\* once with TabNotFoundError, without a backend call and without changing the
\* tab map, the slots, the browsers or the pages; any other outcome of the
\* first step means the id was tracked.
C2_UnknownTabNotFound ==
  [][\A p \in Callers :
       (Starts(p, TabOps) /\ calls[p].observed)
         => IF calls'[p].pc = "done" /\ calls'[p].result = "TabNotFoundError"
              THEN UNCHANGED <<browsers, tabs, chromePath, launched, pages>>
              ELSE /\ DOMAIN tabs # {}
                   /\ calls'[p].pc # "done" => calls'[p].tabId \in DOMAIN tabs
                   /\ calls'[p].pc = "done" =>
                        calls'[p].fn = "getTabUrl" /\ calls'[p].result = "ok"]_vars

\* evaluateScript has failed with TabNotFoundError on the id of a tab that was
\* opened and closed, while another tab is tracked
C2_Witness ==
  /\ calls[1].pc = "done"
  /\ calls[1].fn = "evaluateScript"
  /\ calls[1].result = "TabNotFoundError"
  /\ DOMAIN tabs # {}
  /\ \E pg \in DOMAIN pages : pg \notin DOMAIN tabs

\* C3: every launched browser that has not exited is the one held in the slot
\* of its mode, hence at most one per mode and two in total
C3_OneProcessPerMode ==
  \A b \in DOMAIN launched :
    launched[b].alive => browsers[launched[b].headless] = b

\* no browser of mode h among the browsers `ln` is running
NoneAliveIn(ln, h) == \A b \in DOMAIN ln : ln[b].headless = h => ~ln[b].alive

\* slot h of `br` holds a browser that is running according to `ln`
RunningIn(br, ln, h) == br[h] # Null /\ ln[br[h]].alive

\* C4: when closeTab succeeds and no tab of the tab's mode is tracked any more,
\* the slot of that mode is empty and no browser of that mode is left running;
\* an openTab that finds the slot empty goes through initialize (a launch, never
\* an exited browser revived), and when it succeeds the mode is RUNNING and the
\* new tab is tracked on the browser in the slot.
C4_LastCloseThenRelaunch ==
  [][\A p \in Callers :
       LET h == calls[p].headless IN
       /\ (Settles(p, "closeTab", "ok") /\ calls[p].pc # "done"
             /\ TabsOf(tabs', h) = {})
            => browsers'[h] = Null /\ NoneAliveIn(launched', h)
       /\ (Starts(p, {"openTab"}) /\ browsers[calls'[p].headless] = Null)
            => /\ calls'[p].pc \in {"close_wait", "init_closed"}
               /\ NoneAliveIn(launched, calls'[p].headless)
       /\ (Settles(p, "openTab", "ok") /\ calls[p].pc # "done")
            => /\ RunningIn(browsers', launched', h)
               /\ \E t \in TabsOf(tabs', h) :
                    /\ pages'[t].open
                    /\ pages'[t].browser = browsers'[h]
                    /\ t = calls[p].tabId \/ t \notin DOMAIN tabs
       /\ \A b \in DOMAIN launched : ~launched[b].alive => ~launched'[b].alive]_vars

\* a first browser of a mode has exited and its page is closed; openTab has
\* succeeded again for the same mode on a second browser, which holds the slot
\* and the new tab
C4_Witness ==
  /\ calls[1].pc = "done" /\ calls[1].fn = "openTab" /\ calls[1].result = "ok"
  /\ Len(launched) = 2
  /\ launched[1].headless = launched[2].headless
  /\ ~launched[1].alive
  /\ browsers[launched[2].headless] = 2
  /\ Len(pages) = 2
  /\ ~pages[1].open
  /\ DOMAIN tabs = {2}
  /\ pages[2].browser = 2

\* C5: when page.close() of closeTab has resolved and another tab of the same
\* mode is tracked, the call settles there: exactly the closed tab's entry is
\* removed, and the slots, the browsers and the pages are left as they were.
C5_SiblingKeepsProcess ==
  [][\A p \in Callers :
       (/\ calls[p].pc = "closeTab_page"
        /\ calls[p].observed
        /\ Acts(p)
        /\ calls'[p].result # "BrowserError"
        /\ TabsOf(tabs, calls[p].headless) \ {calls[p].tabId} # {})
         => /\ Settles(p, "closeTab", "ok")
            /\ tabs' = Without(tabs, {calls[p].tabId})
            /\ UNCHANGED <<browsers, launched, pages>>]_vars

\* closeTab has succeeded, a page is closed, and a tab is still tracked on the
\* running browser of its mode while the other mode runs too
C5_Witness ==
  /\ calls[1].pc = "done" /\ calls[1].fn = "closeTab" /\ calls[1].result = "ok"
  /\ \E pg \in DOMAIN pages : ~pages[pg].open
  /\ \E t \in DOMAIN tabs :
       /\ pages[t].open
       /\ browsers[tabs[t].visible] = pages[t].browser
  /\ Running(TRUE) /\ Running(FALSE)

\* C6: every tracked tab belongs to a mode whose slot holds a running browser
\* or for which a launch is under way
C6_TabHasProcess ==
  \A t \in DOMAIN tabs : Running(tabs[t].visible) \/ Launching(tabs[t].visible)

\* C7: a step that removes the last tracked tab of a mode leaves the slot of
\* that mode empty, or the call that removed the tab waiting for that browser
\* to close
C7_LastTabStopsProcess ==
  [][\A h \in Modes :
       (TabsOf(tabs, h) # {} /\ TabsOf(tabs', h) = {})
         => \/ browsers'[h] = Null
            \/ \E p \in Callers :
                 /\ calls'[p].pc \in {"closeTab_browser", "close_wait"}
                 /\ calls'[p].browser = browsers'[h]]_vars

\* C8: a page that closes, at any time after its creation, is not tracked
\* afterwards; nor is the tab of a closeTab that succeeded; and an id is
\* registered only once
C8_ClosedPageUntracked ==
  [][/\ \A pg \in DOMAIN pages :
          (pages[pg].open /\ ~pages'[pg].open) => pg \notin DOMAIN tabs'
     /\ \A p \in Callers :
          (calls[p].pc \in {"closeTab_page", "closeTab_browser"}
             /\ Settles(p, "closeTab", "ok"))
            => calls[p].tabId \notin DOMAIN tabs'
     /\ \A t \in (DOMAIN tabs') \ DOMAIN tabs : t \notin DOMAIN pages]_vars

\* C9: when browser b of mode h exits and its handler runs, exactly the tabs of
\* mode h leave the map, slot h is empty, and the other slot, the other
\* browsers, the pages of other browsers and the calls in flight are untouched
C9_DisconnectPurgesOwnMode ==
  [][\A b \in DOMAIN launched :
       (launched[b].alive /\ ~launched'[b].alive)
         => LET h == launched[b].headless IN
            /\ tabs' = Without(tabs, TabsOf(tabs, h))
            /\ browsers'[h] = Null
            /\ browsers'[~h] = browsers[~h]
            /\ \A b2 \in DOMAIN launched : b2 # b => launched'[b2] = launched[b2]
            /\ \A pg \in DOMAIN pages :
                 pages[pg].browser # b => pages'[pg] = pages[pg]
            /\ calls' = calls]_vars

\* a browser has exited and its mode is ABSENT with its page closed and
\* untracked, while the other mode runs with its tab tracked and open
C9_Witness ==
  \E h \in Modes :
    /\ browsers[h] = Null
    /\ \E b \in DOMAIN launched : launched[b].headless = h /\ ~launched[b].alive
    /\ Running(~h)
    /\ Len(pages) = 2
    /\ \E t \in DOMAIN tabs :
         /\ DOMAIN tabs = {t}
         /\ tabs[t].visible = ~h
         /\ pages[t].open
         /\ pages[t].browser = browsers[~h]

\* C10: an initialize that ends without a launch (no executable, or the launch
\* rejected) settles with BrowserError and leaves its mode ABSENT with no
\* browser of that mode running; whatever happened before, an openTab that
\* finds the slot empty enters initialize again.
C10_FailedLaunchLeavesAbsent ==
  [][\A p \in Callers :
       /\ (/\ calls[p].pc \in {"init_locate", "init_launch"}
           /\ Acts(p)
           /\ calls'[p].pc = "done"
           /\ launched' = launched)
            => /\ calls'[p].result = "BrowserError"
               /\ browsers'[calls[p].headless] = Null
               /\ NoneAliveIn(launched', calls[p].headless)
       /\ (Starts(p, {"openTab"}) /\ browsers[calls'[p].headless] = Null)
            => calls'[p].pc \in {"close_wait", "init_closed"}]_vars

\* openTab has failed with BrowserError after an earlier browser of the mode
\* had run and exited, and the mode is ABSENT
C10_Witness ==
  /\ calls[1].pc = "done" /\ calls[1].fn = "openTab"
  /\ calls[1].result = "BrowserError"
  /\ Len(launched) = 1
  /\ ~launched[1].alive
  /\ browsers[launched[1].headless] = Null
  /\ pages = <<>>

Outcomes == {"ok", "TabNotFoundError", "BrowserError"}

\* C11: every settled call of a public operation has succeeded or has failed
\* with TabNotFoundError or BrowserError; no call is rejected with the backend's
\* own error.
C11_OnlyDomainErrors ==
  \A p \in Callers : calls[p].pc = "done" => calls[p].result \in Outcomes

\* getTabs has been rejected with the backend's error while a tab is tracked
C11_Witness ==
  /\ calls[1].pc = "done" /\ calls[1].fn = "getTabs"
  /\ calls[1].result = "RawError"
  /\ DOMAIN tabs # {}

\* C12: the step of openTab that registers a tab adds exactly one id, which is
\* neither tracked nor was ever returned before (every id returned so far is
\* that of a page created so far); the entries already tracked are left as they
\* are, and no other step adds an id, so the id of a closed tab stays invalid.
C12_FreshTabId ==
  [][LET added == (DOMAIN tabs') \ DOMAIN tabs IN
     /\ \A t \in added : t \notin DOMAIN pages /\ t \in DOMAIN pages'
     /\ Cardinality(added) <= 1
     /\ added # {} =>
          /\ \A u \in DOMAIN tabs : u \in DOMAIN tabs' /\ tabs'[u] = tabs[u]
          /\ \E p \in Callers : calls[p].pc = "open_newpage" /\ Acts(p)
     /\ \A pg \in DOMAIN pages : pg \notin DOMAIN tabs => pg \notin DOMAIN tabs']_vars

\* a second tab has been opened after the first one was closed and untracked
C12_Witness ==
  /\ calls[1].pc = "done" /\ calls[1].fn = "openTab" /\ calls[1].result = "ok"
  /\ Len(pages) = 2
  /\ ~pages[1].open
  /\ DOMAIN tabs = {2}

\* C13: when getTabs succeeds, the array it returns has exactly one entry per
\* tracked tab, and the headless flag of each entry is that of the mode the tab
\* was opened in.
C13_ListingReflectsModes ==
  [][\A p \in Callers :
       (Acts(p) /\ calls'[p].pc = "done" /\ calls'[p].fn = "getTabs"
          /\ calls'[p].result = "ok")
         => LET out == calls'[p].listing IN
            /\ Len(out) = Cardinality(DOMAIN tabs')
            /\ {out[i].id : i \in DOMAIN out} = DOMAIN tabs'
            /\ \A i \in DOMAIN out :
                 out[i].id \in DOMAIN tabs'
                   => out[i].headless = (tabs'[out[i].id].visible = TRUE)]_vars

\* getTabs has returned an entry for a tracked tab of the headless mode
C13_Witness ==
  /\ calls[1].pc = "done" /\ calls[1].fn = "getTabs" /\ calls[1].result = "ok"
  /\ \E i \in DOMAIN calls[1].listing :
       /\ calls[1].listing[i].id \in DOMAIN tabs
       /\ tabs[calls[1].listing[i].id].visible = TRUE

\* C14: when a close call that ran with no other call in flight returns, no tab
\* is tracked, both slots are empty, no browser is running and no page is open,
\* whatever the registry held when it was called.
C14_CloseLeavesNothing ==
  [][\A p \in Callers :
       (Acts(p) /\ calls[p].pc # "done" /\ Settles(p, "close", "ok"))
         => /\ tabs' = NoTabs
            /\ \A h \in Modes : browsers'[h] = Null
            /\ \A b \in DOMAIN launched' : ~launched'[b].alive
            /\ \A pg \in DOMAIN pages' : ~pages'[pg].open]_vars

\* close has returned after both a headless and a headed browser, each with a
\* page, had been running
C14_Witness ==
  /\ calls[1].pc = "done" /\ calls[1].fn = "close" /\ calls[1].result = "ok"
  /\ Len(launched) = 2
  /\ launched[1].headless # launched[2].headless
  /\ \A b \in DOMAIN launched : ~launched[b].alive
  /\ Len(pages) = 2
  /\ tabs = NoTabs

\* C15: a step that changes the configured path changes nothing else: the tab
\* map, the slots, the browsers with their executables, the pages and the calls
\* in flight stay as they are; a browser keeps its executable for as long as it
\* runs; and a launch resolves its executable from the path configured when
\* it reaches getChromePath (the one of the last updateChromePath), the
\* locator being asked, and its answer used, only when none is configured
\* then.
C15_UpdateChromePathFrame ==
  [][/\ chromePath' # chromePath
          => UNCHANGED <<browsers, tabs, launched, pages, calls>>
     /\ \A b \in DOMAIN launched :
          launched'[b].alive => launched'[b] = launched[b]
     /\ \A p \in Callers :
          /\ (calls[p].pc \notin {"init_locate", "init_launch"}
                /\ calls'[p].pc = "init_launch")
               => chromePath # Null /\ calls'[p].exe = chromePath
          /\ (calls[p].pc # "init_locate" /\ calls'[p].pc = "init_locate")
               => chromePath = Null
          /\ (calls[p].pc = "init_locate" /\ calls'[p].pc = "init_launch")
               => calls'[p].exe = Located
          /\ (calls[p].pc = "init_launch" /\ Len(launched') > Len(launched))
               => launched'[Len(launched')].exe = calls[p].exe]_vars

\* a browser launched with the located executable runs with its tab while a
\* path is configured
C15_Witness ==
  /\ chromePath = 1
  /\ \E h \in Modes :
       /\ Running(h)
       /\ launched[browsers[h]].exe = Located
       /\ TabsOf(tabs, h) # {}

\* the middleware starts on a request / ends its handling of one
Authenticates == http.pc \in {"idle", "done"} /\ http' # http

AuthSettles == http' # http /\ http'.pc = "done"

\* the x-api-key the request carries, under either spelling of the name
KeyOf(hd) ==
  IF "x-api-key" \in DOMAIN hd /\ hd["x-api-key"] # <<>> THEN hd["x-api-key"]
  ELSE IF "X-API-KEY" \in DOMAIN hd THEN hd["X-API-KEY"] ELSE <<>>

\* the request carries `Authorization: Bearer <token>`
IsBearer(hd) ==
  /\ "authorization" \in DOMAIN hd
  /\ Len(hd["authorization"]) >= 7
  /\ \A i \in 1..7 : hd["authorization"][i] = Bearer[i]

\* the request carries a Bearer token that verifies against the key set
HasValidToken(hd) ==
  IsBearer(hd) /\ Len(hd["authorization"]) = 8 /\ hd["authorization"][8] = "v"

\* C16: next is called only when an enabled strategy accepts: the API key
\* strategy (enabled unless apiKey.enabled is false) a key equal to the stored
\* one, or the JWT strategy (enabled only when jwt.enabled is true) a token that
\* verified; a key equal to the readable stored key authorizes whatever the
\* Authorization header is; and a token that verifies gets its verification and
\* then authorizes, whatever the x-api-key header is.
C16_EitherStrategyAuthorizes ==
  [][LET cfg == http.config
         hd == http'.headers IN
     /\ (AuthSettles /\ http'.nextCalls > 0)
          => \/ /\ cfg.apiKey # "false"
                /\ http.pc # "jwt_verify"
                /\ KeyOf(hd) # <<>>
                /\ secret'.exists /\ KeyOf(hd) = trim(secret'.content)
             \/ /\ cfg.jwt = "true"
                /\ http.pc = "jwt_verify"
                /\ HasValidToken(hd)
     /\ (/\ Authenticates
         /\ cfg.apiKey # "false"
         /\ secret.exists /\ KeyOf(hd) # <<>> /\ KeyOf(hd) = trim(secret.content)
         /\ secret' = secret /\ ~http'.threw)
          => http'.pc = "done" /\ http'.nextCalls = 1 /\ http'.responses = <<>>
     /\ (/\ Authenticates
         /\ cfg.jwt = "true" /\ cfg.jwksUrl = "url"
         /\ HasValidToken(hd))
          => http'.nextCalls = 1 \/ http'.pc = "jwt_verify"
     /\ (http.pc = "jwt_verify" /\ AuthSettles /\ http'.responses = <<>>)
          => http'.nextCalls = 1]_vars

\* with both strategies enabled, a request with a wrong API key and a token
\* that verified has been let through
C16_Witness ==
  /\ http.pc = "done"
  /\ http.config.apiKey # "false" /\ http.config.jwt = "true"
  /\ KeyOf(http.headers) = <<"x">>
  /\ HasValidToken(http.headers)
  /\ http.nextCalls = 1

\* C17: with no strategy enabled (apiKey.enabled false and jwt.enabled not
\* true) the request is answered 401 NO_AUTH_CONFIGURED at once: no strategy is
\* evaluated, the key file is not touched, next is not called; with a strategy
\* enabled the answer is never NO_AUTH_CONFIGURED, so INVALID_CREDENTIALS is
\* the answer only then.
C17_NoAuthConfigured ==
  [][Authenticates =>
       LET none == http.config.apiKey = "false" /\ http.config.jwt # "true" IN
       /\ none => /\ http'.pc = "done"
                   /\ http'.responses = <<"NO_AUTH_CONFIGURED">>
                   /\ http'.nextCalls = 0
                   /\ http'.evaluated = <<>>
                   /\ ~http'.threw
                   /\ secret' = secret
       /\ ~none => \A i \in DOMAIN http'.responses :
                      http'.responses[i] = "INVALID_CREDENTIALS"]_vars

\* with both strategies off, a request carrying the stored key and a token that
\* would verify has been answered NO_AUTH_CONFIGURED
C17_Witness ==
  /\ http.pc = "done"
  /\ http.config.apiKey = "false" /\ http.config.jwt = "false"
  /\ KeyOf(http.headers) = <<"k">>
  /\ HasValidToken(http.headers)
  /\ http.responses = <<"NO_AUTH_CONFIGURED">>

\* C18: the strategies are evaluated one after the other, the API key first:
\* what has been evaluated is always a prefix of API key, JWT, verification
\* (without those that are not enabled), and once the API key strategy has
\* accepted nothing more is evaluated: no JWT check and no verification are
\* started for that request.
C18_ApiKeyFirstThenStop ==
  LET cfg == http.config
      order == (IF cfg.apiKey # "false" THEN <<"apiKey">> ELSE <<>>)
                 \o (IF cfg.jwt = "true" THEN <<"jwt", "jwtVerify">> ELSE <<>>)
      ev == http.evaluated IN
  /\ Len(ev) <= Len(order) /\ ev = SubSeq(order, 1, Len(ev))
  /\ (http.pc = "jwt_verify") => ev # <<>> /\ ev[Len(ev)] = "jwtVerify"
  /\ (/\ http.pc = "done" /\ http.nextCalls > 0
      /\ cfg.apiKey # "false"
      /\ secret.exists /\ KeyOf(http.headers) # <<>>
      /\ KeyOf(http.headers) = trim(secret.content))
       => ev = <<"apiKey">>

\* with both strategies enabled, a request carrying the stored key and a token
\* that would verify has been let through on the API key alone
C18_Witness ==
  /\ http.pc = "done"
  /\ http.config.apiKey # "false" /\ http.config.jwt = "true"
  /\ http.config.jwksUrl = "url"
  /\ KeyOf(http.headers) = <<"k">>
  /\ HasValidToken(http.headers)
  /\ http.nextCalls = 1
  /\ http.evaluated = <<"apiKey">>

\* C19: when the middleware has ended its handling of a request, either next
\* was called once and nothing was answered, or 401 was answered once and next
\* was not called.
C19_ExactlyOneOutcome ==
  http.pc = "done"
    => \/ http.nextCalls = 1 /\ http.responses = <<>>
       \/ http.nextCalls = 0 /\ Len(http.responses) = 1

\* the middleware has ended with neither: the API key strategy threw
C19_Witness ==
  /\ http.pc = "done"
  /\ http.threw
  /\ http.nextCalls = 0 /\ http.responses = <<>>

\* C20: for a request whose Authorization header is missing or does not start
\* with 'Bearer ', no verification is ever started, and when the JWT strategy
\* is evaluated it fails at once: being the last strategy, the request is
\* answered 401 INVALID_CREDENTIALS in the same step.
C20_NoBearerNoVerification ==
  [][(http' # http /\ ~IsBearer(http'.headers))
       => /\ http'.pc # "jwt_verify"
          /\ \A i \in DOMAIN http'.evaluated : http'.evaluated[i] # "jwtVerify"
          /\ (\E i \in DOMAIN http'.evaluated : http'.evaluated[i] = "jwt")
               => /\ http'.pc = "done"
                  /\ http'.nextCalls = 0
                  /\ http'.responses = <<"INVALID_CREDENTIALS">>]_vars

\* the JWT strategy, enabled with a key-set URL, has been evaluated for a
\* request whose Authorization header names the scheme in lower case, and the
\* request was refused
C20_Witness ==
  /\ http.pc = "done"
  /\ http.config.jwt = "true" /\ http.config.jwksUrl = "url"
  /\ "authorization" \in DOMAIN http.headers
  /\ http.headers["authorization"] = <<"b", "e", "a", "r", "e", "r", " ", "v">>
  /\ http.evaluated[Len(http.evaluated)] = "jwt"
  /\ http.responses = <<"INVALID_CREDENTIALS">>

\* C21: with a strategy enabled, a request that is not let through is answered
\* 401 INVALID_CREDENTIALS with the enabled methods listed, whatever made the
\* strategies fail, and the middleware does not throw.
C21_UniformRejection ==
  (/\ http.pc = "done"
   /\ http.nextCalls = 0
   /\ (http.config.apiKey # "false" \/ http.config.jwt = "true"))
    => /\ ~http.threw
       /\ http.responses = <<"INVALID_CREDENTIALS">>
       /\ http.methods =
            (IF http.config.apiKey # "false"
               THEN <<"API key (x-api-key header)">> ELSE <<>>)
              \o (IF http.config.jwt = "true"
                    THEN <<"JWT Bearer token">> ELSE <<>>)

\* with both strategies enabled, a request with a wrong key whose token failed
\* verification has been answered INVALID_CREDENTIALS naming both methods
C21_Witness ==
  /\ http.pc = "done"
  /\ http.evaluated = <<"apiKey", "jwt", "jwtVerify">>
  /\ KeyOf(http.headers) = <<"x">>
  /\ http.responses = <<"INVALID_CREDENTIALS">>
  /\ Len(http.methods) = 2

\* C22: a proxied verification opens its tab, evaluates, then closes the tab,
\* in that order; and when the strategy returns after the evaluate step (with
\* a verdict once closeTab has succeeded, or because evaluate failed) the
\* verification tab is not tracked.
C22_ProxyCycleClosesTab ==
  [][/\ LET cycle == <<"openTab", "evaluate", "closeTab">> IN
        /\ Len(http'.cycle) <= 3
        /\ http'.cycle = SubSeq(cycle, 1, Len(http'.cycle))
     /\ (/\ http'.pc = "done"
         /\ \/ http.pc = "proxy_eval"
            \/ http.pc = "proxy_close" /\ calls[1].result = "ok")
          => http.tab \notin DOMAIN tabs']_vars

\* a verification has returned after its evaluate step failed
C22_Witness ==
  /\ http.pc = "done"
  /\ http.cycle = <<"openTab", "evaluate">>
  /\ http.responses = <<"INVALID_CREDENTIALS">>

\* C23: the tabs router, the resources router and the MCP handler run for a
\* request only after the middleware has called next for it, and a request
\* that was answered by the middleware (401) reaches no handler.
C23_HandlersBehindAuth ==
  /\ \A i \in DOMAIN http.handlers :
       http.handlers[i] \in {"tabsRouter", "resourcesRouter", "statelessHandler"}
         => http.nextCalls = 1 /\ http.responses = <<>> /\ ~http.threw
  /\ http.responses # <<>> => http.handlers = <<>>

\* an authenticated POST /mcp has reached the MCP handler
C23_Witness ==
  /\ http.path = <<"mcp">>
  /\ http.handlers = <<"statelessHandler">>
  /\ http.nextCalls = 1

\* C24: a route that takes :tabId answers a TabNotFoundError of the registry
\* with 404, success false, no code field and a message that holds the tab
\* id; any other failure with 500 and success false; and 200 only when the
\* registry call succeeded.
C24_RouteErrorMapping ==
  (/\ http.pc = "done" /\ http.called /\ http.route \in DOMAIN TabRoutes)
    => /\ http.outcome = "TabNotFoundError"
            => /\ http.status = 404
               /\ DOMAIN http.json = {"success", "error"}
               /\ http.json.success = FALSE
               /\ Len(http.json.error) = 3
               /\ http.json.error[2] = http.tabId
       /\ http.outcome \notin {"ok", "TabNotFoundError"}
            => http.status = 500 /\ http.json.success = FALSE
       /\ http.status = 200 => http.outcome = "ok"

\* an unknown tab was answered 404
C24_Witness ==
  /\ http.pc = "done" /\ http.called /\ http.route = "goto"
  /\ http.outcome = "TabNotFoundError"
  /\ http.status = 404

\* C25: a request that lacks a field its route requires is answered 400 and
\* the registry is neither called nor changed, whether or not the tab id is
\* known.
C25_ValidationFirst ==
  [][(/\ http.pc = "idle" /\ http' # http
      /\ \E f \in RouteOf(http'.route).required : http'.body[f] = Undefined)
       => /\ http'.status = 400
          /\ http'.pc = "done"
          /\ ~http'.called
          /\ UNCHANGED <<browsers, tabs, chromePath, launched, pages, calls>>]_vars

\* a request for an unknown tab without its required field was answered 400
C25_Witness ==
  /\ http.route = "fill" /\ http.tabId \notin DOMAIN tabs
  /\ http.body["value"] = Undefined
  /\ http.status = 400

\* C26: a stored resource stays listed and readable through every step that
\* is neither clean of its URI nor cleanAll: closing its tab, a browser exit,
\* closing all tabs and storing further screenshots leave it in the store,
\* and its content changes only when a screenshot is stored under the very
\* same URI.
C26_ResourcesPersist ==
  [][\A uri \in DOMAIN mcp.ALL_IMAGES :
       \/ mcp'.result.op = "cleanAll"
       \/ mcp'.result.op = "clean" /\ mcp'.result.uri = uri
       \/ /\ mcp.ALL_IMAGES[uri].list \in ListResources(mcp'.ALL_IMAGES)
          /\ ~ReadResource(mcp'.ALL_IMAGES, uri).threw
          /\ \/ mcp'.ALL_IMAGES[uri] = mcp.ALL_IMAGES[uri]
             \/ /\ StoreDue
                /\ uri = Uri(mcp.tabId, mcp.now)]_vars

\* a screenshot is in the store and its tab is no longer tracked
C26_Witness ==
  \E uri \in DOMAIN mcp.ALL_IMAGES :
    /\ uri[1] \notin DOMAIN tabs
    /\ Cardinality(DOMAIN mcp.ALL_IMAGES) = 2

\* C27: clean(uri) answers removed exactly when the URI was stored, leaves
\* it absent and every other resource as it was, so that cleaning the same
\* URI again answers removed = false; cleanAll answers the number of
\* resources stored and leaves the store empty.
C27_CleanReports ==
  [][/\ (Quiet /\ mcp'.result.op = "clean" /\ mcp'.result.status = 200)
        => /\ mcp'.result.removed = (mcp'.result.uri \in DOMAIN mcp.ALL_IMAGES)
           /\ mcp'.result.uri \notin DOMAIN mcp'.ALL_IMAGES
           /\ \A u \in (DOMAIN mcp.ALL_IMAGES) \ {mcp'.result.uri} :
                /\ u \in DOMAIN mcp'.ALL_IMAGES
                /\ mcp'.ALL_IMAGES[u] = mcp.ALL_IMAGES[u]
           /\ DOMAIN mcp'.ALL_IMAGES \subseteq DOMAIN mcp.ALL_IMAGES
           /\ ~clean(mcp'.ALL_IMAGES, mcp'.result.uri).removed
     /\ (Quiet /\ mcp'.result.op = "cleanAll")
        => /\ mcp'.result.count = Cardinality(DOMAIN mcp.ALL_IMAGES)
           /\ mcp'.ALL_IMAGES = NoImages]_vars

\* one of two stored resources was cleaned
C27_Witness ==
  /\ mcp.result.op = "clean" /\ mcp.result.removed
  /\ Cardinality(DOMAIN mcp.ALL_IMAGES) = 1

\* C28: with the file left alone and no read failure since, a request that
\* presents the key returned by the load that found .secret absent is
\* accepted.
C28_IssuedKeyAccepted ==
  (/\ http.pc = "verified" /\ http.provided = http.issued
   /\ ~http.readFailed)
    => http.accepted

\* the key issued at start-up was presented and accepted
C28_Witness ==
  /\ http.pc = "verified" /\ http.provided = http.issued
  /\ ~http.readFailed /\ http.accepted

\* C29: while an operation is in flight on a tab, another caller's operation
\* on the same tab can be started and is in flight on the same page at once
\* (it is neither refused nor queued); and with two operations in flight on
\* one open page, either of them can be the first to complete.
C29_NotSerialized ==
  \A p \in Callers : \A q \in Callers \ {p} :
    calls[p].pc = "page_wait" =>
      /\ (Ready(q) /\ calls[p].tabId \in DOMAIN tabs)
           => ENABLED (/\ pageOp(q, "evaluateScript", calls[p].tabId)
                       /\ calls'[q].pc = "page_wait"
                       /\ calls'[p] = calls[p])
      /\ (/\ calls[q].pc = "page_wait"
          /\ calls[q].tabId = calls[p].tabId
          /\ pages[calls[p].tabId].open)
           => /\ ENABLED (pageOp_resolved(p) /\ calls'[q] = calls[q])
              /\ ENABLED (pageOp_resolved(q) /\ calls'[p] = calls[p])

\* navigateTab and evaluateScript are in flight on the same tab
C29_Witness ==
  /\ calls[1].pc = "page_wait" /\ calls[1].fn = "navigateTab"
  /\ calls[2].pc = "page_wait" /\ calls[2].fn = "evaluateScript"
  /\ calls[1].tabId = calls[2].tabId

\* C30: clickElement with waitForNavigation issues the navigation wait
\* before the click and has both pending together; it returns only once
\* both have been fulfilled; and the step in which either is rejected is the
\* step in which the call fails with BrowserError.
C30_ClickWithNavigation ==
  [][/\ (calls[1].pc # "click_all" /\ calls'[1].pc = "click_all")
        => /\ calls'[1].issued = <<"waitForNavigation", "click">>
           /\ calls'[1].nav = "pending" /\ calls'[1].click = "pending"
     /\ calls[1].pc = "click_all"
        => /\ calls[1].nav # "rejected" /\ calls[1].click # "rejected"
           /\ "pending" \in {calls[1].nav, calls[1].click}
           /\ (calls'[1].pc = "done" /\ calls'[1].result = "ok")
                => calls'[1].nav = "fulfilled" /\ calls'[1].click = "fulfilled"
           /\ (calls'[1].nav = "fulfilled" /\ calls'[1].click = "fulfilled")
                => calls'[1].pc = "done" /\ calls'[1].result = "ok"
           /\ "rejected" \in {calls'[1].nav, calls'[1].click}
                => calls'[1].pc = "done" /\ calls'[1].result = "BrowserError"
           /\ calls'[1].pc = "done"
                => calls'[1].result \in {"ok", "BrowserError"}]_vars

\* the click was fulfilled, the navigation wait then failed, and the call
\* failed
C30_Witness ==
  /\ calls[1].pc = "done" /\ calls[1].fn = "clickElement"
  /\ calls[1].click = "fulfilled" /\ calls[1].nav = "rejected"
  /\ calls[1].result = "BrowserError"

\* C38: every successful browser_screenshot call stores its capture under a
\* URI that was not in the store, so that the store grows by one and the
\* captures stored before stay as they were.
C38_CaptureAddsOne ==
  [][(/\ StoreDue /\ Quiet /\ calls[1].result = "ok"
      /\ mcp'.pc = "idle")
       => /\ Uri(mcp.tabId, mcp.now) \notin DOMAIN mcp.ALL_IMAGES
          /\ Cardinality(DOMAIN mcp'.ALL_IMAGES)
               = Cardinality(DOMAIN mcp.ALL_IMAGES) + 1
          /\ \A u \in DOMAIN mcp.ALL_IMAGES :
               /\ u \in DOMAIN mcp'.ALL_IMAGES
               /\ mcp'.ALL_IMAGES[u] = mcp.ALL_IMAGES[u]]_vars

\* two captures of different tabs are stored
C38_Witness ==
  /\ mcp.pc = "idle"
  /\ \E u, v \in DOMAIN mcp.ALL_IMAGES : u[1] # v[1]

\* C31: the components of one server that took their BrowserManager from
\* BrowserManagerSingleton hold the same instance: one instance exists and
\* each of them sees the tabs the others opened.
C31_OneRegistry ==
  /\ Len(memo.managers) <= 1
  /\ \A c, d \in Components :
       (memo[c] # Null /\ memo[d] # Null)
         => memo[c] = memo[d] /\ tabsOf(memo, c) = tabsOf(memo, d)

\* the routes and the proxied verification hold their instances and the
\* verification has a tab open
C31_Witness ==
  /\ memo.routes # Null
  /\ memo.verifier # Null
  /\ tabsOf(memo, "verifier") # {}

\* how far an openTab call has come: closing, closed, locating, launching,
\* launched, creating the page, navigating, settled
Stage(c) ==
  CASE c.pc = "close_wait" -> 1
    [] c.pc = "init_closed" -> 2
    [] c.pc = "init_locate" -> 3
    [] c.pc = "init_launch" -> 4
    [] c.pc = "open_initialized" -> 5
    [] c.pc = "open_newpage" -> 6
    [] c.pc = "open_goto" -> 7
    [] OTHER -> 8

\* C32: an openTab call goes to initialize only when it finds the slot of its
\* mode empty, launches at most once and settles when the launch fails; a call
\* that finds a browser in the slot goes straight to newPage on that browser,
\* changes neither the slots nor the tab map nor the browsers on the way, and
\* its tab is added next to the tracked ones as a page of that browser.
C32_LazyLaunch ==
  [][\A p \in Callers :
       /\ Starts(p, {"openTab"}) =>
            IF browsers[calls'[p].headless] = Null
              THEN Stage(calls'[p]) \in {1, 2}
              ELSE /\ Stage(calls'[p]) = 6
                   /\ calls'[p].browser = browsers[calls'[p].headless]
                   /\ UNCHANGED <<browsers, tabs, launched, pages>>
       /\ (~Ready(p) /\ calls[p].fn = "openTab" /\ Acts(p)) =>
            /\ Stage(calls'[p]) >= Stage(calls[p])
            /\ Stage(calls[p]) >= 2 => Stage(calls'[p]) > Stage(calls[p])
            /\ Stage(calls[p]) >= 5 =>
                 /\ browsers' = browsers
                 /\ launched' = launched
                 /\ \A t \in DOMAIN tabs : t \in DOMAIN tabs' /\ tabs'[t] = tabs[t]
            /\ (Stage(calls[p]) = 6 /\ tabs' # tabs) =>
                 \E id \in DOMAIN tabs' \ DOMAIN tabs :
                   /\ DOMAIN tabs' = DOMAIN tabs \cup {id}
                   /\ tabs'[id].visible = calls[p].headless
                   /\ pages'[tabs'[id].page].browser = calls[p].browser]_vars

\* a second tab has been opened in a mode: one browser launched, both tabs
\* tracked as its pages
C32_Witness ==
  /\ calls[1].pc = "done" /\ calls[1].fn = "openTab" /\ calls[1].result = "ok"
  /\ Len(launched) = 1
  /\ Cardinality(DOMAIN tabs) = 2
  /\ \A t \in DOMAIN tabs : pages[tabs[t].page].browser = 1 /\ tabs[t].visible = TRUE

\* the openTab call made for a request is under way
Opening == calls[1].fn = "openTab" /\ calls[1].pc \notin {"idle", "done"}

\* C33: an open request without a headless field is served in headless mode,
\* through POST /api/tabs/open as through the tool browser_open_tab.
C33_SameDefaultMode ==
  /\ (http.pc = "route_wait" /\ http.route = "open" /\ Opening
        /\ http.body.headless = "undefined")
       => calls[1].headless = TRUE
  /\ (mcp.pc = "open_wait" /\ Opening /\ mcp.args.headless = "undefined")
       => calls[1].headless = TRUE

\* the tool has opened a tab for a call without a headless argument
C33_Witness ==
  /\ mcp.pc = "open_wait"
  /\ mcp.args.headless = "undefined"
  /\ calls[1].pc = "done" /\ calls[1].result = "ok"
  /\ tabs # NoTabs

\* no browser has exited and no page has closed since the server started
NothingExited ==
  /\ \A b \in DOMAIN launched : launched[b].alive
  /\ \A pg \in DOMAIN pages : pages[pg].open

\* C34: when openTab has failed, the tab map and the two slots are what they
\* were when it was called (no browser having exited and no page having
\* closed meanwhile): no entry was added for the page and none was lost.
C34_OpenTabAtomic ==
  (/\ calls[1].pc = "done" /\ calls[1].fn = "openTab"
   /\ calls[1].result = "BrowserError"
   /\ NothingExited)
    => /\ http.pc = "route_wait" => Registry = http.before
       /\ mcp.pc = "open_wait" => Registry = mcp.args.before

\* openTab has failed for the route after its page was created
C34_Witness ==
  /\ http.pc = "route_wait"
  /\ calls[1].pc = "done" /\ calls[1].fn = "openTab"
  /\ calls[1].result = "BrowserError"
  /\ NothingExited
  /\ Len(pages) = 1

\* browser b is running but is not the one the slot of its mode holds, and
\* that slot holds another browser
Stale(b) ==
  /\ Alive(b)
  /\ browsers[launched[b].headless] # Null
  /\ browsers[launched[b].headless] # b

\* C35: when a browser exits that is not the one held in the slot of its
\* mode, the slot keeps the browser it holds and the tabs whose pages belong
\* to that browser stay tracked.
C35_StaleDisconnect ==
  [][\A b \in DOMAIN launched :
       (Stale(b) /\ ~launched'[b].alive)
         => LET h == launched[b].headless IN
            /\ browsers'[h] = browsers[h]
            /\ \A t \in DOMAIN tabs :
                 pages[tabs[t].page].browser = browsers[h] => t \in DOMAIN tabs']_vars

\* a browser replaced in its slot has exited: the slot is empty while the
\* browser that replaced it runs on, its open page no longer tracked
C35_Witness ==
  \E b, c \in DOMAIN launched :
    /\ ~launched[b].alive /\ launched[c].alive
    /\ launched[b].headless = launched[c].headless
    /\ browsers[launched[c].headless] = Null
    /\ \E pg \in DOMAIN pages :
         pages[pg].browser = c /\ pages[pg].open /\ pg \notin DOMAIN tabs

\* the middleware answers 401 in this step
Rejects == http'.pc = "done" /\ http'.responses # <<>> /\ http' # http

\* C36: when the middleware answers 401, the tab map and the slots are what
\* they were when the request arrived, and no browser was launched and no
\* page created for it: nothing at all for a request without a Bearer token,
\* and nothing that outlasts the verification for one with a Bearer token
\* under jwt.proxy.
C36_RejectedLeavesRegistry ==
  [][Rejects =>
       IF http'.cycle = <<>>
         THEN UNCHANGED <<browsers, tabs, launched, pages>>
         ELSE /\ Registry' = http'.before.registry
              /\ Processes' = http'.before.processes]_vars

\* a request with a Bearer token has been answered 401 after its
\* verification opened a tab, evaluated and closed the tab
C36_Witness ==
  /\ http.pc = "done"
  /\ http.responses = <<"INVALID_CREDENTIALS">>
  /\ http.cycle = <<"openTab", "evaluate", "closeTab">>
  /\ http.resultText = "invalid"

\* the request carries no API key: the header the strategy reads is missing
\* or empty
NoApiKey(headers) ==
  \A name \in {"x-api-key", "X-API-KEY"} :
    Header(headers, name) \in {Undefined, <<>>}

\* C37: a request without an API key, its header missing or empty, is never
\* accepted by the API key strategy, whatever .secret holds: the strategy
\* returns false for it, and when next was called for such a request another
\* strategy accepted it.
C37_NoKeyNeverAccepted ==
  /\ \A headers \in Requests, readFails \in BOOLEAN, writeFails \in BOOLEAN :
       NoApiKey(headers)
         => ~apiKeyStrategy(headers, secret, readFails, writeFails).accepted
  /\ (http.pc = "done" /\ http.nextCalls > 0 /\ NoApiKey(http.headers))
       => http.evaluated # <<"apiKey">>

\* a request with an empty x-api-key header has been answered 401 while the
\* trimmed content of .secret is the empty string
C37_Witness ==
  /\ http.pc = "done"
  /\ "x-api-key" \in DOMAIN http.headers
  /\ http.headers["x-api-key"] = <<>>
  /\ http.evaluated = <<"apiKey">>
  /\ http.responses = <<"INVALID_CREDENTIALS">>
  /\ secret.exists /\ trim(secret.content) = <<>>

====
